---- MODULE Spec2Model ----
(***************************************************************************)
(* Model of the journal-entry request pipeline of awsbackend:              *)
(*   lambda/journal-entry/main.go   handler, processJournalEntry           *)
(*   internal/idempotency           IdempotencyService (DynamoDB)          *)
(*   internal/llm                   CostControlService (DynamoDB)          *)
(*   internal/encryption/kms.go     KMSClient                              *)
(* Every Lambda invocation is a process; each DynamoDB / KMS call is one   *)
(* atomic step, so that invocations interleave between their calls.        *)
(* Strings are sequences of characters; money is counted in units of       *)
(* 10^-8 dollar; time is counted in hours.                                 *)
(***************************************************************************)
EXTENDS Integers, Sequences, FiniteSets, TLC

\* ------------------------------------------------------------------ bounds
MaxInvocations == 2    \* Lambda invocations in one behaviour
TickHours == 24        \* granularity of the wall clock
MaxTime == 49          \* the clock stops here
MaxFaults == 1         \* store calls that fail
MaxRefusals == 1       \* KMS calls that fail
MaxCrashes == 1        \* invocations that die

\* the invocation slots: the races of this code are races of two invocations
Procs == {1, 2}

\* --------------------------------------------------------------- constants
IdempotencyHours == 24         \* ExpiresAt and TTL of an idempotency record
HoursPerDay == 24              \* time.Now().Format("2006-01-02")
DefaultDailyLimit == 500000000 \* 5.0 dollars
OutputTokens == 100            \* processJournalEntry's outputTokens argument
ZeroTime == 0                  \* time.Time{} of a missing attribute
StartTime == ZeroTime + 1      \* the clock's first reading

Endpoint == <<"P", "O", "S", "T", " ", "/", "j">>
Sonnet == "anthropic.claude-3-sonnet-20240229-v1:0"
Haiku == "anthropic.claude-3-haiku-20240307-v1:0"
Opus == "anthropic.claude-3-opus-20240229-v1:0"

\* ------------------------------------------------------------------ inputs
UserIDs == {<<"u", "1">>, <<"u", "2">>}

\* JournalEntryRequest values a client may send (Tags is a sequence of strings)
ReqA == [Content |-> <<"a">>, Mood |-> <<"m">>,
         Tags |-> <<<<"t">>, <<>>, <<"s">>>>,
         IdempotencyKey |-> <<"k">>]
ReqB == [Content |-> <<"b", "b">>, Mood |-> <<>>, Tags |-> <<>>,
         IdempotencyKey |-> <<"k">>]
ReqEmpty == [Content |-> <<>>, Mood |-> <<"m">>, Tags |-> <<>>,
             IdempotencyKey |-> <<>>]
Requests == {ReqA, ReqB, ReqEmpty}

\* the JSON text of a request, as the client serialises it
RawBody(r) ==
    <<"content", r.Content, "mood", r.Mood, "tags", r.Tags,
      "idempotency_key", r.IdempotencyKey>>
BadJSON == <<"{">>
Bodies == {RawBody(r) : r \in Requests} \cup {BadJSON}

NoToken == <<>>
BadToken == <<"x">>
TokenOf(u) == <<"B", "e", "a", "r", "e", "r", " ">> \o u
AuthHeaders == {TokenOf(u) : u \in UserIDs} \cup {NoToken, BadToken}

\* the requests (Authorization header, body) the clients of one behaviour send
User1 == <<"u", "1">>
User2 == <<"u", "2">>
ReqOfA == <<TokenOf(User1), RawBody(ReqA)>>
Invalid ==
    {<<NoToken, RawBody(ReqA)>>, <<BadToken, RawBody(ReqA)>>,
     <<User1, BadJSON>>, <<TokenOf(User1), RawBody(ReqEmpty)>>}
Repeats == {ReqOfA}
TwoBodies == {ReqOfA, <<TokenOf(User1), RawBody(ReqB)>>}
TwoUsers == {ReqOfA, <<TokenOf(User2), RawBody(ReqA)>>}
Workloads == {Repeats, Invalid, TwoBodies, TwoUsers}
\* the workloads under which store calls, KMS calls and invocations may fail;
\* the others run on a healthy environment
Unreliable == {Repeats}



\* ---------------------------------------------------------- pure functions
\* crypto/sha256 + hex, taken to be collision free: the digest names its input
Sha256Hex(s) == <<"sha256", s>>

\* GenerateIdempotencyKey: sha256(fmt.Sprintf("%s:%s:%s", ...))
GenerateIdempotencyKey(u, endpoint, requestBody) ==
    Sha256Hex(u \o <<":">> \o endpoint \o <<":">> \o requestBody)

\* GenerateRequestHash: sha256(requestBody)
GenerateRequestHash(requestBody) == Sha256Hex(requestBody)

Keys == {GenerateIdempotencyKey(u, Endpoint, b) : u \in UserIDs, b \in Bodies}

\* json.Unmarshal([]byte(request.Body), &req)
ParseOK(b) == Len(b) = 8 /\ b[1] = "content"
ParseBody(b) ==
    [Content |-> b[2], Mood |-> b[4], Tags |-> b[6], IdempotencyKey |-> b[8]]

\* auth.ValidateToken: the claims' user id, or an error
ValidToken(tok) == tok \in UserIDs
\* extractUserIDFromRequest: strips "Bearer " and validates the token
StripBearer(h) ==
    IF Len(h) > 7 /\ SubSeq(h, 1, 7) = <<"B", "e", "a", "r", "e", "r", " ">>
    THEN SubSeq(h, 8, Len(h)) ELSE h
\* an authentication that accepts every header that is present
AuthOKAnyHeader(h) == h # <<>>
AuthOK(h) == h # <<>> /\ ValidToken(StripBearer(h))

\* EstimateLLMCost, per token, in units of 10^-8 dollar
ModelCosts(model) ==
    IF model = Haiku THEN [input |-> 25, output |-> 125]
    ELSE IF model = Opus THEN [input |-> 1500, output |-> 7500]
    ELSE [input |-> 300, output |-> 1500]
EstimateLLMCost(inputTokens, outputTokens, model) ==
    inputTokens * ModelCosts(model).input
        + outputTokens * ModelCosts(model).output

\* time.Now().Format("2006-01-02")
Today(t) == t \div HoursPerDay
Days == 0..(MaxTime \div HoursPerDay)

\* KMS: the service's Encrypt and Decrypt, and the base64 text of a blob
KmsEncrypt(s) == <<"K">> \o s
KmsDecrypt(c) == Tail(c)
Base64Encode(b) == <<"=">> \o b
Base64Decode(t) == Tail(t)
\* EncryptPHI that returns the blob without the base64 encoding
EncryptPHIRaw(s) == IF s = <<>> THEN <<>> ELSE KmsEncrypt(s)
\* EncryptPHI / DecryptPHI when the service call succeeds
EncryptPHI(s) == IF s = <<>> THEN <<>> ELSE Base64Encode(KmsEncrypt(s))
DecryptPHI(c) == IF c = <<>> THEN <<>> ELSE KmsDecrypt(Base64Decode(c))
\* the result of EncryptPHIArray / DecryptPHIArray: the array (nil is the
\* empty sequence), the error and the calls made to the service
ArrayResult(arr, err, calls) == [arr |-> arr, err |-> err, calls |-> calls]

\* an array call that hands back, with its error, the elements it has done
ArrayFailurePartial(done, err, calls) == ArrayResult(done, err, calls)

\* EncryptPHIArray, line 101 and DecryptPHIArray, line 119: return nil, err
ArrayFailure(done, err, calls) == ArrayResult(<<>>, err, calls)

\* EncryptPHIArray, lines 96-105: the loop from element i on, encrypted
\* being make([]string, len(plaintexts)) as filled so far; the service
\* refuses the call for element bad (bad = 0: it refuses none)
RECURSIVE EncryptLoop(_, _, _, _, _)
EncryptLoop(a, bad, i, encrypted, calls) ==
    IF i > Len(a) THEN ArrayResult(encrypted, "", calls)
    ELSE IF a[i] = <<>>
    THEN EncryptLoop(a, bad, i + 1, [encrypted EXCEPT ![i] = <<>>], calls)
    ELSE IF i = bad
    THEN ArrayFailure(encrypted, "failed to encrypt array element", calls + 1)
    ELSE EncryptLoop(a, bad, i + 1,
                     [encrypted EXCEPT ![i] = EncryptPHI(a[i])], calls + 1)

\* EncryptPHIArray that appends each ciphertext to its result and so leaves
\* out the elements that are empty
EncryptPHIArrayAppend(a, bad) ==
    IF Len(a) = 0 THEN ArrayResult(<<>>, "", 0)
    ELSE LET r == EncryptLoop(a, bad, 1, [i \in 1..Len(a) |-> <<>>], 0)
         IN [r EXCEPT !.arr = SelectSeq(@, LAMBDA x : x # <<>>)]

\* EncryptPHIArray, lines 91-106
EncryptPHIArrayAt(a, bad) ==
    IF Len(a) = 0 THEN ArrayResult(<<>>, "", 0)
    ELSE EncryptLoop(a, bad, 1, [i \in 1..Len(a) |-> <<>>], 0)

\* DecryptPHIArray, lines 114-123, as EncryptLoop
RECURSIVE DecryptLoop(_, _, _, _, _)
DecryptLoop(a, bad, i, decrypted, calls) ==
    IF i > Len(a) THEN ArrayResult(decrypted, "", calls)
    ELSE IF a[i] = <<>>
    THEN DecryptLoop(a, bad, i + 1, [decrypted EXCEPT ![i] = <<>>], calls)
    ELSE IF i = bad
    THEN ArrayFailure(decrypted, "failed to decrypt array element", calls + 1)
    ELSE DecryptLoop(a, bad, i + 1,
                     [decrypted EXCEPT ![i] = DecryptPHI(a[i])], calls + 1)

\* DecryptPHIArray, lines 109-124
DecryptPHIArrayAt(a, bad) ==
    IF Len(a) = 0 THEN ArrayResult(<<>>, "", 0)
    ELSE DecryptLoop(a, bad, 1, [i \in 1..Len(a) |-> <<>>], 0)

\* EncryptPHIArray when every element succeeds
EncryptPHIArray(a) == EncryptPHIArrayAt(a, 0).arr
\* number of elements that reach the service
KmsNeeded(a) == Cardinality({i \in 1..Len(a) : a[i] # <<>>})

\* strings that hold either nothing, a JSON object or an error text
EmptyText == [form |-> "empty", val |-> <<>>]
\* json.Marshal of a *JournalEntryResponse: the fields in struct order
MarshalEntry(e) ==
    [form |-> "json",
     val |-> << <<"id", e.ID>>, <<"user_id", e.UserID>>,
                <<"content", e.Content>>, <<"mood", e.Mood>>,
                <<"tags", e.Tags>>, <<"created_at", e.CreatedAt>>,
                <<"updated_at", e.UpdatedAt>>, <<"encrypted", e.Encrypted>> >>]
\* fmt.Sprintf("error: %v", err)
ErrorText(err) == [form |-> "error", val |-> <<err>>]
\* json.Unmarshal into interface{}: a map from the JSON names to the values
JSONField(txt, n) ==
    txt.val[CHOOSE i \in 1..Len(txt.val) : txt.val[i][1] = n][2]
UnmarshalAny(txt) ==
    [id |-> JSONField(txt, "id"), user_id |-> JSONField(txt, "user_id"),
     content |-> JSONField(txt, "content"), mood |-> JSONField(txt, "mood"),
     tags |-> JSONField(txt, "tags"),
     created_at |-> JSONField(txt, "created_at"),
     updated_at |-> JSONField(txt, "updated_at"),
     encrypted |-> JSONField(txt, "encrypted")]
\* json.Marshal of the map: the keys in sorted order
MarshalMap(m) ==
    [form |-> "json",
     val |-> << <<"content", m.content>>, <<"created_at", m.created_at>>,
                <<"encrypted", m.encrypted>>, <<"id", m.id>>,
                <<"mood", m.mood>>, <<"tags", m.tags>>,
                <<"updated_at", m.updated_at>>, <<"user_id", m.user_id>> >>]

\* ----------------------------------------------------------------- records
NoString == <<>>
NoHash == <<"", <<>>>>
\* an absent item, and the zero IdempotencyRecord a missing attribute leaves
NoRecord ==
    [Present |-> FALSE, UserID |-> NoString, RequestHash |-> NoHash,
     Response |-> EmptyText, Status |-> "", CreatedAt |-> ZeroTime,
     ExpiresAt |-> ZeroTime, TTL |-> ZeroTime]
\* an absent item of the spend table
NoSpend == [Present |-> FALSE, LLMRequests |-> 0, LLMCost |-> 0, DailyLimit |-> 0]
NoEntry ==
    [ID |-> 0, UserID |-> NoString, Content |-> NoString, Mood |-> NoString,
     Tags |-> <<>>, CreatedAt |-> ZeroTime, UpdatedAt |-> ZeroTime,
     Encrypted |-> FALSE]
NoMap == UnmarshalAny(MarshalEntry(NoEntry))
NoCheck == [Allowed |-> FALSE, Remaining |-> 0, CurrentCost |-> 0, DailyLimit |-> 0]
\* what ProcessIdempotentRequest has returned: (response, err)
NoRet == [kind |-> "none", err |-> "", entry |-> NoEntry, cached |-> NoMap]
\* the API Gateway response
NoOut == [StatusCode |-> 0, Code |-> "", Body |-> EmptyText]

\* ------------------------------------------------------------------- state
NoEnc == [Content |-> NoString, Mood |-> NoString, Tags |-> <<>>]
NoSrec == [Date |-> 0, Rec |-> NoSpend]
NoExpired == [Status |-> "", ExpiresAt |-> ZeroTime]

VARIABLES
    now,        \* wall clock, in hours
    idem,       \* table therma-idempotency: key -> item
    spend,      \* table therma-user-spend: user -> day -> item
    nanos,      \* time.Now().UnixNano() as generateID reads it
    pc,         \* position of the invocation in each slot
    hdr,        \* request.Headers["Authorization"]
    body,       \* request.Body
    userID,     \* claims.UserID
    estimate,   \* estimatedCost
    costCheck,  \* the CostControlResult
    enc,        \* encryptedContent, encryptedMood, encryptedTags
    entry,      \* the handler's *JournalEntryResponse
    herr,       \* the handler's error
    srec,       \* the record RecordLLMRequest has read, and its date
    ret,        \* what ProcessIdempotentRequest returned
    out,        \* what the Lambda returned
    started,    \* history: invocations so far
    executed,   \* history: the handler closure of the invocation was called
    fault,      \* history: a store call of the invocation failed
    expiredSeen,\* history: the expired item the invocation's lookup has read
    inserted,   \* history: expires_at of the item the invocation has inserted
    arrivals,   \* history, per key: invocations that reached the lookup
    runs,       \* history, per key: executions of the handler closure
    returned,   \* history, per key: the entry the last execution returned
    kmsTotal,   \* history: calls to the KMS service
    recorded,   \* history, per user: RecordLLMRequest calls whose put succeeded
    faults,     \* history: store calls that have failed
    refusals,   \* history: KMS calls that have failed
    crashes,    \* history: invocations that have died
    overlap,    \* history: two invocations were in flight together
    spend0,     \* history: the spend table of the initial state
    idem0,      \* history: the idempotency table of the initial state
    workload,   \* the requests the clients send in this behaviour
    probe       \* two calls of GenerateIdempotencyKey: arguments and results

stores == <<idem, spend>>
inputs == <<hdr, body, userID>>
locals == <<estimate, costCheck, enc, entry, herr, srec>>
outs == <<ret, out>>
slotHist == <<executed, fault, expiredSeen, inserted>>
\* what Init fixes for the whole behaviour
frozen == <<spend0, idem0, workload, probe>>
globalHist == <<started, arrivals, runs, returned, kmsTotal, faults,
                refusals, crashes, overlap, recorded, frozen>>
vars == <<now, idem, spend, nanos, pc, hdr, body, userID, estimate, costCheck,
          enc, entry, herr, srec, ret, out, started, executed, fault,
          expiredSeen, inserted, arrivals, runs, returned, kmsTotal, faults,
          refusals, crashes, overlap, recorded, frozen>>

req(p) == ParseBody(body[p])
key(p) == GenerateIdempotencyKey(userID[p], Endpoint, body[p])
requestHash(p) == GenerateRequestHash(body[p])

Free(p) == pc[p] \in {"idle", "done", "crashed"}
InFlight(p) == ~Free(p)

\* a record of therma-user-spend that earlier traffic of the day has left
NearLimit ==
    [Present |-> TRUE, LLMRequests |-> 7, LLMCost |-> 499900000,
     DailyLimit |-> DefaultDailyLimit]

\* a record whose cost leaves room for exactly one more request ReqB (and
\* so for one ReqA, but not for both)
AtLimit ==
    [Present |-> TRUE, LLMRequests |-> 9,
     LLMCost |-> DefaultDailyLimit
                   - EstimateLLMCost(Len(ReqB.Content), OutputTokens, Sonnet),
     DailyLimit |-> DefaultDailyLimit]

\* a record whose daily_limit an operator has raised to twice the default,
\* with a day's cost that has reached the default limit
RaisedLimit ==
    [Present |-> TRUE, LLMRequests |-> 9, LLMCost |-> DefaultDailyLimit,
     DailyLimit |-> 2 * DefaultDailyLimit]

\* the item an earlier invocation for ReqOfA, which read its clock at t and
\* called generateID at 0, has left: it died (pending), it returned an
\* encrypted entry (completed) or its handler failed (failed)
OldEntry(t) ==
    [ID |-> 0, UserID |-> User1, Content |-> EncryptPHI(ReqA.Content),
     Mood |-> EncryptPHI(ReqA.Mood), Tags |-> EncryptPHIArray(ReqA.Tags),
     CreatedAt |-> t, UpdatedAt |-> t, Encrypted |-> TRUE]
OldRecord(status, t) ==
    [Present |-> TRUE, UserID |-> User1,
     RequestHash |-> GenerateRequestHash(ReqOfA[2]),
     Response |-> IF status = "completed" THEN MarshalEntry(OldEntry(t))
                  ELSE IF status = "failed"
                  THEN ErrorText("failed to encrypt content")
                  ELSE EmptyText,
     Status |-> status, CreatedAt |-> t, ExpiresAt |-> t + IdempotencyHours,
     TTL |-> t + IdempotencyHours]
KeyOfA == GenerateIdempotencyKey(User1, Endpoint, ReqOfA[2])

\* what the two tables hold for user 1 when the behaviour starts: nothing, a
\* day's spend near the limit, or the item of an earlier invocation
Tables0 == [old |-> NoRecord, spent |-> NoSpend]
Tables ==
    {Tables0, [old |-> NoRecord, spent |-> NearLimit]} \cup
    {[old |-> OldRecord(st, StartTime), spent |-> NoSpend] :
        st \in {"pending", "completed", "failed"}}
\* the tables a workload may start from
InitialTables(w) ==
    IF w = Repeats THEN Tables
    ELSE IF w = TwoBodies
    THEN {Tables0, [old |-> NoRecord, spent |-> AtLimit],
          [old |-> NoRecord, spent |-> RaisedLimit]}
    ELSE IF w = TwoUsers
    THEN {Tables0, [old |-> NoRecord, spent |-> NearLimit]}
    ELSE {Tables0}

Boot ==
    /\ workload \in Workloads
    /\ now = StartTime
    /\ \E t \in InitialTables(workload) :
         /\ idem = [k \in Keys |-> IF k = KeyOfA THEN t.old ELSE NoRecord]
         /\ spend = [u \in UserIDs |-> [d \in Days |->
                       IF u = User1 /\ d = Today(StartTime) THEN t.spent
                       ELSE NoSpend]]
    /\ idem0 = idem
    /\ spend0 = spend
    /\ nanos = 1
    /\ pc = [p \in Procs |-> "idle"]
    /\ hdr = [p \in Procs |-> NoToken]
    /\ body = [p \in Procs |-> BadJSON]
    /\ userID = [p \in Procs |-> NoString]
    /\ estimate = [p \in Procs |-> 0]
    /\ costCheck = [p \in Procs |-> NoCheck]
    /\ enc = [p \in Procs |-> NoEnc]
    /\ entry = [p \in Procs |-> NoEntry]
    /\ herr = [p \in Procs |-> ""]
    /\ srec = [p \in Procs |-> NoSrec]
    /\ ret = [p \in Procs |-> NoRet]
    /\ out = [p \in Procs |-> NoOut]
    /\ started = 0
    /\ executed = [p \in Procs |-> FALSE]
    /\ fault = [p \in Procs |-> FALSE]
    /\ expiredSeen = [p \in Procs |-> NoExpired]
    /\ inserted = [p \in Procs |-> ZeroTime]
    /\ arrivals = [k \in Keys |-> 0]
    /\ runs = [k \in Keys |-> 0]
    /\ returned = [k \in Keys |-> NoEntry]
    /\ kmsTotal = 0
    /\ recorded = [u \in UserIDs |-> [n |-> 0, cost |-> 0]]
    /\ faults = 0
    /\ refusals = 0
    /\ crashes = 0
    /\ overlap = FALSE

\* the key generator is not probed in the behaviours of the Lambda
NoKey == <<>>
NoProbe == [in |-> <<>>, key |-> <<>>]

Init == Boot /\ probe = NoProbe

anyFault == faults > 0
anyCrash == crashes > 0

\* ----------------------------------------------------------------- actions
\* createErrorResponse
ErrorOut(code, name) == [StatusCode |-> code, Code |-> name, Body |-> EmptyText]

\* handler, lines 90-107: what the Lambda answers to (response, err)
OutOf(r) ==
    IF r.err # "" THEN ErrorOut(500, "PROCESSING_ERROR")
    ELSE [StatusCode |-> 201, Code |-> "",
          Body |-> IF r.kind = "cached" THEN MarshalMap(r.cached)
                   ELSE MarshalEntry(r.entry)]

\* the locals of an invocation that has ended
DropLocals(p) ==
    /\ estimate' = [estimate EXCEPT ![p] = 0]
    /\ costCheck' = [costCheck EXCEPT ![p] = NoCheck]
    /\ enc' = [enc EXCEPT ![p] = NoEnc]
    /\ entry' = [entry EXCEPT ![p] = NoEntry]
    /\ herr' = [herr EXCEPT ![p] = ""]
    /\ srec' = [srec EXCEPT ![p] = NoSrec]

\* ProcessIdempotentRequest returns r to the handler, which answers
Return(p, r) ==
    /\ ret' = [ret EXCEPT ![p] = r]
    /\ out' = [out EXCEPT ![p] = OutOf(r)]
    /\ pc' = [pc EXCEPT ![p] = "done"]
    /\ DropLocals(p)

\* an error after which the invocation tries the same call again
ReturnErrRetry(p, e) ==
    UNCHANGED <<pc, ret, out, estimate, costCheck, enc, entry, herr, srec>>

\* an error that is dropped: the invocation goes on to the handler
ReturnErrAndRun(p, e) ==
    /\ pc' = [pc EXCEPT ![p] = "admit"]
    /\ UNCHANGED <<ret, out, estimate, costCheck, enc, entry, herr, srec>>

ReturnErr(p, e) == Return(p, [NoRet EXCEPT !.kind = "error", !.err = e])

\* a store call of invocation p fails
Fails(p) ==
    /\ workload \in Unreliable
    /\ faults < MaxFaults
    /\ faults' = faults + 1
    /\ fault' = [fault EXCEPT ![p] = TRUE]
NoFailure == UNCHANGED <<fault, faults>>

\* handler, lines 45-61: a new invocation takes the lowest free slot;
\* authentication, parsing, validation
Start(p) ==
    /\ Free(p)
    /\ \A q \in Procs : q < p => InFlight(q)
    /\ started < MaxInvocations
    /\ started' = started + 1
    /\ executed' = [executed EXCEPT ![p] = FALSE]
    /\ fault' = [fault EXCEPT ![p] = FALSE]
    /\ expiredSeen' = [expiredSeen EXCEPT ![p] = NoExpired]
    /\ inserted' = [inserted EXCEPT ![p] = ZeroTime]
    /\ ret' = [ret EXCEPT ![p] = NoRet]
    /\ \E in \in workload :
         LET h == in[1]
             b == in[2]
         IN /\ hdr' = [hdr EXCEPT ![p] = h]
            /\ IF ~AuthOK(h)
               THEN /\ out' = [out EXCEPT ![p] = ErrorOut(401, "UNAUTHORIZED")]
                    /\ pc' = [pc EXCEPT ![p] = "done"]
                    /\ body' = [body EXCEPT ![p] = BadJSON]
                    /\ userID' = [userID EXCEPT ![p] = NoString]
                    /\ UNCHANGED <<arrivals, overlap>>
               ELSE /\ body' = [body EXCEPT ![p] = b]
                    /\ userID' = [userID EXCEPT ![p] = StripBearer(h)]
                    /\ IF ~ParseOK(b)
                       THEN /\ out' = [out EXCEPT ![p] =
                                         ErrorOut(400, "INVALID_REQUEST")]
                            /\ pc' = [pc EXCEPT ![p] = "done"]
                            /\ UNCHANGED <<arrivals, overlap>>
                       ELSE IF ParseBody(b).Content = <<>>
                       THEN /\ out' = [out EXCEPT ![p] =
                                         ErrorOut(400, "VALIDATION_ERROR")]
                            /\ pc' = [pc EXCEPT ![p] = "done"]
                            /\ UNCHANGED <<arrivals, overlap>>
                       ELSE /\ pc' = [pc EXCEPT ![p] = "check"]
                            /\ out' = [out EXCEPT ![p] = NoOut]
                            /\ arrivals' = [arrivals EXCEPT
                                  ![GenerateIdempotencyKey(StripBearer(h),
                                                           Endpoint, b)] = @ + 1]
                            /\ overlap' = (overlap \/
                                             \E q \in Procs \ {p} : InFlight(q))
    /\ UNCHANGED <<now, stores, nanos, locals, runs, returned, kmsTotal,
                   faults, refusals, crashes, recorded, frozen>>

\* the errors of lines 430-452
CheckFailed == "failed to check idempotency: failed to check idempotency"
AlreadyProcessing == "request is already being processed"
KeyConflict == "idempotency key conflict: same key used for different request"

\* time.Now().Before(record.ExpiresAt): the comparison turned round
ExpiredBefore(rec, t) == t < rec.ExpiresAt

\* time.Now().After(record.ExpiresAt)
Expired(rec, t) == t > rec.ExpiresAt

\* Lookup without the replay of lines 437-444: a completed record falls
\* through to the insert
LookupNoReplay(p, rec) ==
    IF rec.Present /\ rec.RequestHash = requestHash(p) /\ rec.Status = "pending"
    THEN ReturnErr(p, AlreadyProcessing)
    ELSE IF rec.Present /\ rec.RequestHash # requestHash(p)
    THEN ReturnErr(p, KeyConflict)
    ELSE /\ pc' = [pc EXCEPT ![p] = "insert"]
         /\ UNCHANGED <<outs, locals>>

\* Lookup without the pending branch of lines 445-447
LookupNoPending(p, rec) ==
    IF rec.Present /\ rec.RequestHash = requestHash(p) /\ rec.Status = "completed"
    THEN IF rec.Response.form = "json"
         THEN Return(p, [NoRet EXCEPT !.kind = "cached",
                                      !.cached = UnmarshalAny(rec.Response)])
         ELSE ReturnErr(p, "failed to unmarshal cached response")
    ELSE IF rec.Present /\ rec.RequestHash # requestHash(p)
    THEN ReturnErr(p, KeyConflict)
    ELSE /\ pc' = [pc EXCEPT ![p] = "insert"]
         /\ UNCHANGED <<outs, locals>>

\* ProcessIdempotentRequest, lines 435-452, on the record the lookup returned
Lookup(p, rec) ==
    IF rec.Present /\ rec.RequestHash = requestHash(p) /\ rec.Status = "completed"
    THEN IF rec.Response.form = "json"
         THEN Return(p, [NoRet EXCEPT !.kind = "cached",
                                      !.cached = UnmarshalAny(rec.Response)])
         ELSE ReturnErr(p, "failed to unmarshal cached response")
    ELSE IF rec.Present /\ rec.RequestHash = requestHash(p) /\ rec.Status = "pending"
    THEN ReturnErr(p, AlreadyProcessing)
    ELSE IF rec.Present /\ rec.RequestHash # requestHash(p)
    THEN ReturnErr(p, KeyConflict)
    ELSE /\ pc' = [pc EXCEPT ![p] = "insert"]
         /\ UNCHANGED <<outs, locals>>

\* CheckIdempotency, lines 310-341 (GetItem), and the branches on its result
CheckIdempotency(p) ==
    /\ pc[p] = "check"
    /\ \/ /\ Fails(p)
          /\ ReturnErr(p, CheckFailed)
          /\ UNCHANGED expiredSeen
       \/ /\ idem[key(p)].Present /\ Expired(idem[key(p)], now)
          /\ expiredSeen' = [expiredSeen EXCEPT ![p] =
                               [Status |-> idem[key(p)].Status,
                                ExpiresAt |-> idem[key(p)].ExpiresAt]]
          /\ pc' = [pc EXCEPT ![p] = "delete"]
          /\ NoFailure
          /\ UNCHANGED <<outs, locals>>
       \/ /\ ~(idem[key(p)].Present /\ Expired(idem[key(p)], now))
          /\ Lookup(p, idem[key(p)])
          /\ NoFailure
          /\ UNCHANGED expiredSeen
    /\ UNCHANGED <<now, stores, nanos, inputs, started, executed, inserted,
                   arrivals, runs, returned, kmsTotal, refusals, crashes,
                   overlap, recorded, frozen>>

\* DeleteIdempotencyRecord called by CheckIdempotency, line 336; its error is
\* dropped and CheckIdempotency returns (nil, nil)
DeleteIdempotencyRecord(p) ==
    /\ pc[p] = "delete"
    /\ \/ /\ idem' = [idem EXCEPT ![key(p)] = NoRecord]
          /\ NoFailure
       \/ /\ Fails(p)
          /\ UNCHANGED idem
    /\ pc' = [pc EXCEPT ![p] = "insert"]
    /\ UNCHANGED <<now, spend, nanos, inputs, locals, outs, started,
                   executed, expiredSeen, inserted, arrivals, runs, returned,
                   kmsTotal, refusals, crashes, overlap, recorded, frozen>>

\* the record of lines 455-462 with the TTL of line 346
NewRecord(p, t) ==
    [Present |-> TRUE, UserID |-> userID[p], RequestHash |-> requestHash(p),
     Response |-> EmptyText, Status |-> "pending", CreatedAt |-> t,
     ExpiresAt |-> t + IdempotencyHours, TTL |-> t + IdempotencyHours]

\* the errors of lines 464-467, which wrap those of StoreIdempotencyRecord
StoreFailed ==
    "failed to store idempotency record: failed to store idempotency record"
KeyExists ==
    "failed to store idempotency record: idempotency key already exists"

\* StoreIdempotencyRecord without its ConditionExpression: a plain PutItem
StorePlainPut(p) ==
    /\ pc[p] = "insert"
    /\ \/ /\ Fails(p)
          /\ ReturnErr(p, StoreFailed)
          /\ UNCHANGED <<idem, inserted>>
       \/ /\ idem' = [idem EXCEPT ![key(p)] = NewRecord(p, now)]
          /\ inserted' = [inserted EXCEPT ![p] = NewRecord(p, now).ExpiresAt]
          /\ pc' = [pc EXCEPT ![p] = "admit"]
          /\ NoFailure
          /\ UNCHANGED <<outs, locals>>
    /\ UNCHANGED <<now, spend, nanos, inputs, started, executed, expiredSeen,
                   arrivals, runs, returned, kmsTotal, refusals, crashes,
                   overlap, recorded, frozen>>

\* StoreIdempotencyRecord, lines 344-372: PutItem if attribute_not_exists(key)
StoreIdempotencyRecord(p) ==
    /\ pc[p] = "insert"
    /\ \/ /\ Fails(p)
          /\ ReturnErr(p, StoreFailed)
          /\ UNCHANGED <<idem, inserted>>
       \/ /\ idem[key(p)].Present
          /\ ReturnErr(p, KeyExists)
          /\ NoFailure
          /\ UNCHANGED <<idem, inserted>>
       \/ /\ ~idem[key(p)].Present
          /\ idem' = [idem EXCEPT ![key(p)] = NewRecord(p, now)]
          /\ inserted' = [inserted EXCEPT ![p] = NewRecord(p, now).ExpiresAt]
          /\ pc' = [pc EXCEPT ![p] = "admit"]
          /\ NoFailure
          /\ UNCHANGED <<outs, locals>>
    /\ UNCHANGED <<now, spend, nanos, inputs, started, executed, expiredSeen,
                   arrivals, runs, returned, kmsTotal, refusals, crashes,
                   overlap, recorded, frozen>>

\* getDefaultDailyLimit
getDefaultDailyLimit(u) == DefaultDailyLimit

\* a GetItem by the user alone: the item of the first day is read for every
\* day
getUserSpendRecordUndated(u, d) ==
    IF spend[u][0].Present THEN spend[u][0]
    ELSE [Present |-> FALSE, LLMRequests |-> 0, LLMCost |-> 0,
          DailyLimit |-> getDefaultDailyLimit(u)]

\* getUserSpendRecord, and the default record of lines 69-79 / 112-122
getUserSpendRecord(u, d) ==
    IF spend[u][d].Present THEN spend[u][d]
    ELSE [Present |-> FALSE, LLMRequests |-> 0, LLMCost |-> 0,
          DailyLimit |-> getDefaultDailyLimit(u)]

\* the comparison of line 89 with >= : a request that exactly fits is denied
SpendCheckStrict(record, estimatedCost) ==
    [Allowed |-> ~(record.LLMCost + estimatedCost >= record.DailyLimit),
     Remaining |-> record.DailyLimit - record.LLMCost,
     CurrentCost |-> record.LLMCost,
     DailyLimit |-> record.DailyLimit]

\* CheckUserSpendLimit, lines 81-98, on the record it has read
SpendCheck(record, estimatedCost) ==
    [Allowed |-> ~(record.LLMCost + estimatedCost > record.DailyLimit),
     Remaining |-> record.DailyLimit - record.LLMCost,
     CurrentCost |-> record.LLMCost,
     DailyLimit |-> record.DailyLimit]

\* CheckUserSpendLimit that saves the default record of lines 69-79
SpendAfterCheckSaved(u, d) ==
    [spend EXCEPT ![u][d] = [getUserSpendRecord(u, d) EXCEPT !.Present = TRUE]]

\* CheckUserSpendLimit, lines 59-99: the spend table after the call; the
\* function calls GetItem only, the default record is not saved
SpendAfterCheck(u, d) == spend

\* a degraded entry that claims to be encrypted
DegradedEntryFlagged(r, id, t) ==
    [ID |-> id, UserID |-> <<"u", "s", "e", "r", "_", "i", "d">>,
     Content |-> r.Content, Mood |-> r.Mood, Tags |-> r.Tags,
     CreatedAt |-> t, UpdatedAt |-> t, Encrypted |-> TRUE]

\* handleCostLimitExceeded, lines 166-186
DegradedEntry(r, id, t) ==
    [ID |-> id, UserID |-> <<"u", "s", "e", "r", "_", "i", "d">>,
     Content |-> r.Content, Mood |-> r.Mood, Tags |-> r.Tags,
     CreatedAt |-> t, UpdatedAt |-> t, Encrypted |-> FALSE]

\* an entry whose content and tags are encrypted and whose mood is plaintext
EncryptedEntryMixed(u, e, id, t) ==
    [ID |-> id, UserID |-> u, Content |-> e.Content,
     Mood |-> DecryptPHI(e.Mood), Tags |-> e.Tags, CreatedAt |-> t,
     UpdatedAt |-> t, Encrypted |-> TRUE]

\* processJournalEntry, lines 145-154
EncryptedEntry(u, e, id, t) ==
    [ID |-> id, UserID |-> u, Content |-> e.Content, Mood |-> e.Mood,
     Tags |-> e.Tags, CreatedAt |-> t, UpdatedAt |-> t, Encrypted |-> TRUE]

\* a handler that goes on to the encryption whatever the check has answered
AfterAdmissionAlways(c) == "encrypt"

\* processJournalEntry, lines 123-126: if !costCheck.Allowed the handler
\* returns handleCostLimitExceeded, else it goes on to the encryption
AfterAdmission(c) == IF c.Allowed THEN "encrypt" ELSE "update"

\* processJournalEntry, lines 116-126: the handler closure starts, estimates
\* the cost and asks CheckUserSpendLimit (one GetItem on the spend table)
AdmissionCheck(p) ==
    /\ pc[p] = "admit"
    /\ executed' = [executed EXCEPT ![p] = TRUE]
    /\ runs' = [runs EXCEPT ![key(p)] = @ + 1]
    /\ estimate' = [estimate EXCEPT ![p] =
                      EstimateLLMCost(Len(req(p).Content), OutputTokens, Sonnet)]
    /\ \/ /\ Fails(p)
          /\ herr' = [herr EXCEPT ![p] = "failed to check cost limits"]
          /\ pc' = [pc EXCEPT ![p] = "update"]
          /\ UNCHANGED <<costCheck, entry, nanos, spend>>
       \/ LET c == SpendCheck(getUserSpendRecord(userID[p], Today(now)),
                              estimate'[p])
          IN /\ costCheck' = [costCheck EXCEPT ![p] = c]
             /\ spend' = SpendAfterCheck(userID[p], Today(now))
             /\ IF ~c.Allowed
                THEN /\ entry' = [entry EXCEPT ![p] =
                                    DegradedEntry(req(p), nanos, now)]
                     /\ nanos' = nanos + 1
                ELSE UNCHANGED <<entry, nanos>>
             /\ pc' = [pc EXCEPT ![p] = AfterAdmission(c)]
             /\ NoFailure
             /\ UNCHANGED herr
    /\ UNCHANGED <<now, idem, inputs, enc, srec, outs, started,
                   expiredSeen, inserted, arrivals, returned, kmsTotal,
                   refusals, crashes, overlap, recorded, frozen>>

\* processJournalEntry, lines 128-154: EncryptPHI(req.Content),
\* EncryptPHI(req.Mood), EncryptPHIArray(req.Tags) in this order, each stopping
\* the handler when the service refuses; then the entry is built.  The KMS
\* calls read and write no shared state, so they form one step.
Encrypt(p) ==
    /\ pc[p] = "encrypt"
    /\ LET r == req(p)
           nc == KmsNeeded(<<r.Content>>)
           nm == KmsNeeded(<<r.Mood>>)
       IN \/ /\ r.Content # <<>>
             /\ workload \in Unreliable
             /\ refusals < MaxRefusals
             /\ refusals' = refusals + 1
             /\ kmsTotal' = kmsTotal + 1
             /\ herr' = [herr EXCEPT ![p] = "failed to encrypt content"]
             /\ pc' = [pc EXCEPT ![p] = "update"]
             /\ UNCHANGED <<enc, entry, nanos>>
          \/ /\ r.Mood # <<>>
             /\ workload \in Unreliable
             /\ refusals < MaxRefusals
             /\ refusals' = refusals + 1
             /\ kmsTotal' = kmsTotal + nc + 1
             /\ enc' = [enc EXCEPT ![p] =
                          [NoEnc EXCEPT !.Content = EncryptPHI(r.Content)]]
             /\ herr' = [herr EXCEPT ![p] = "failed to encrypt mood"]
             /\ pc' = [pc EXCEPT ![p] = "update"]
             /\ UNCHANGED <<entry, nanos>>
          \/ \E i \in 1..Len(r.Tags) :
             /\ r.Tags[i] # <<>>
             /\ workload \in Unreliable
             /\ refusals < MaxRefusals
             /\ refusals' = refusals + 1
             /\ kmsTotal' = kmsTotal + nc + nm
                                + EncryptPHIArrayAt(r.Tags, i).calls
             /\ enc' = [enc EXCEPT ![p] =
                          [Content |-> EncryptPHI(r.Content),
                           Mood |-> EncryptPHI(r.Mood),
                           Tags |-> EncryptPHIArrayAt(r.Tags, i).arr]]
             /\ herr' = [herr EXCEPT ![p] = "failed to encrypt tags"]
             /\ pc' = [pc EXCEPT ![p] = "update"]
             /\ UNCHANGED <<entry, nanos>>
          \/ /\ enc' = [enc EXCEPT ![p] =
                          [Content |-> EncryptPHI(r.Content),
                           Mood |-> EncryptPHI(r.Mood),
                           Tags |-> EncryptPHIArrayAt(r.Tags, 0).arr]]
             /\ kmsTotal' = kmsTotal + nc + nm
                                + EncryptPHIArrayAt(r.Tags, 0).calls
             /\ entry' = [entry EXCEPT ![p] =
                            EncryptedEntry(userID[p], enc'[p], nanos, now)]
             /\ nanos' = nanos + 1
             /\ pc' = [pc EXCEPT ![p] = "recordGet"]
             /\ UNCHANGED <<herr, refusals>>
    /\ UNCHANGED <<now, stores, inputs, estimate, costCheck, srec, outs,
                   started, slotHist, arrivals, runs, returned, faults,
                   crashes, overlap, recorded, frozen>>

\* RecordLLMRequest, lines 102-122: today's record is read (or defaulted);
\* processJournalEntry only logs an error of RecordLLMRequest
RecordRead(p) ==
    /\ pc[p] = "recordGet"
    /\ \/ /\ Fails(p)
          /\ pc' = [pc EXCEPT ![p] = "update"]
          /\ UNCHANGED srec
       \/ /\ srec' = [srec EXCEPT ![p] =
                        [Date |-> Today(now),
                         Rec |-> getUserSpendRecord(userID[p], Today(now))]]
          /\ pc' = [pc EXCEPT ![p] = "recordPut"]
          /\ NoFailure
    /\ UNCHANGED <<now, stores, nanos, inputs, estimate, costCheck, enc,
                   entry, herr, outs, started, executed, expiredSeen,
                   inserted, arrivals, runs, returned, kmsTotal, refusals,
                   crashes, overlap, recorded, frozen>>

\* RecordLLMRequest that counts the request twice and adds the cost twice
IncrementedTwice(record, cost) ==
    [Present |-> TRUE, LLMRequests |-> record.LLMRequests + 2,
     LLMCost |-> record.LLMCost + cost + cost, DailyLimit |-> record.DailyLimit]

\* RecordLLMRequest that adds the cost and forgets LLMRequests++
IncrementedCostOnly(record, cost) ==
    [Present |-> TRUE, LLMRequests |-> record.LLMRequests,
     LLMCost |-> record.LLMCost + cost, DailyLimit |-> record.DailyLimit]

\* RecordLLMRequest that resets the limit of the record to the default
IncrementedDefaultLimit(record, cost) ==
    [Present |-> TRUE, LLMRequests |-> record.LLMRequests + 1,
     LLMCost |-> record.LLMCost + cost, DailyLimit |-> DefaultDailyLimit]

\* RecordLLMRequest, lines 124-128: LLMRequests++, LLMCost += cost
Incremented(record, cost) ==
    [Present |-> TRUE, LLMRequests |-> record.LLMRequests + 1,
     LLMCost |-> record.LLMCost + cost, DailyLimit |-> record.DailyLimit]

\* a save that refuses a record whose cost has passed its limit
saveUnderLimit(u, d, record) ==
    IF record.LLMCost > record.DailyLimit THEN spend
    ELSE [spend EXCEPT ![u][d] = record]

\* saveUserSpendRecord, lines 174-191: PutItem of the whole record
saveUserSpendRecord(u, d, record) == [spend EXCEPT ![u][d] = record]

\* RecordLLMRequest, lines 124-136: the record is incremented and put back
RecordWrite(p) ==
    /\ pc[p] = "recordPut"
    /\ \/ /\ spend' = saveUserSpendRecord(userID[p], srec[p].Date,
                                           Incremented(srec[p].Rec, estimate[p]))
          /\ recorded' = [recorded EXCEPT ![userID[p]] =
                             [n |-> @.n + 1, cost |-> @.cost + estimate[p]]]
          /\ NoFailure
       \/ /\ Fails(p)
          /\ UNCHANGED <<spend, recorded>>
    /\ pc' = [pc EXCEPT ![p] = "update"]
    /\ UNCHANGED <<now, idem, nanos, inputs, locals, outs, started, executed,
                   expiredSeen, inserted, arrivals, runs, returned, kmsTotal,
                   refusals, crashes, overlap, frozen>>

\* an UpdateExpression that sets the response and forgets the status
UpdateItemNoStatus(rec, response, status) ==
    [rec EXCEPT !.Present = TRUE, !.Response = response]

\* UpdateItem SET response, status, updated_at: DynamoDB creates the item
\* when the key is absent, with these attributes only
UpdateItem(rec, response, status) ==
    [rec EXCEPT !.Present = TRUE, !.Response = response, !.Status = status]

\* the handler's error wrapped as the other errors of the function are
FailedReturnWrapped(e) ==
    [NoRet EXCEPT !.kind = "error", !.err = "failed to process request"]

\* ProcessIdempotentRequest, lines 471-475: (nil, err) of a failed handler
FailedReturn(e) == [NoRet EXCEPT !.kind = "error", !.err = e]

\* ProcessIdempotentRequest, lines 470-491: the handler has returned; the
\* record is updated (an update error is dropped or logged) and the result
\* or the handler's error is returned
UpdateIdempotencyRecord(p) ==
    /\ pc[p] = "update"
    /\ \/ /\ idem' = [idem EXCEPT ![key(p)] =
                        IF herr[p] # ""
                        THEN UpdateItem(@, ErrorText(herr[p]), "failed")
                        ELSE UpdateItem(@, MarshalEntry(entry[p]), "completed")]
          /\ NoFailure
       \/ /\ Fails(p)
          /\ UNCHANGED idem
    /\ IF herr[p] # ""
       THEN /\ Return(p, FailedReturn(herr[p]))
            /\ UNCHANGED returned
       ELSE /\ Return(p, [NoRet EXCEPT !.kind = "fresh", !.entry = entry[p]])
            /\ returned' = [returned EXCEPT ![key(p)] = entry[p]]
    /\ UNCHANGED <<now, spend, nanos, inputs, started, executed, expiredSeen,
                   inserted, arrivals, runs, kmsTotal, refusals, crashes,
                   overlap, recorded, frozen>>

\* the invocation dies (the function's 30 s timeout, a kill) or is abandoned
\* between the insert and the update
Crash(p) ==
    /\ pc[p] \in {"admit", "encrypt", "recordGet", "recordPut", "update"}
    /\ workload \in Unreliable
    /\ crashes < MaxCrashes
    /\ crashes' = crashes + 1
    /\ pc' = [pc EXCEPT ![p] = "crashed"]
    /\ DropLocals(p)
    /\ UNCHANGED <<now, stores, nanos, inputs, outs, started, slotHist,
                   arrivals, runs, returned, kmsTotal, faults, refusals,
                   overlap, recorded, frozen>>

\* DynamoDB's time-to-live sweeper removes an item whose ttl has passed
TTLExpire(k) ==
    /\ idem[k].Present
    /\ idem[k].TTL # ZeroTime
    /\ idem[k].TTL < now
    /\ idem' = [idem EXCEPT ![k] = NoRecord]
    /\ UNCHANGED <<now, spend, nanos, pc, inputs, locals, outs, slotHist,
                   globalHist>>

\* the wall clock advances; an invocation lives at most 30 s (the function's
\* timeout), so no invocation is in flight across a step of the clock
Tick ==
    /\ \A p \in Procs : Free(p)
    /\ now + TickHours <= MaxTime
    /\ now' = now + TickHours
    /\ UNCHANGED <<stores, nanos, pc, inputs, locals, outs, slotHist,
                   globalHist>>

Next ==
    \/ \E p \in Procs : Start(p)
    \/ \E p \in Procs : CheckIdempotency(p)
    \/ \E p \in Procs : DeleteIdempotencyRecord(p)
    \/ \E p \in Procs : StoreIdempotencyRecord(p)
    \/ \E p \in Procs : AdmissionCheck(p)
    \/ \E p \in Procs : Encrypt(p)
    \/ \E p \in Procs : RecordRead(p)
    \/ \E p \in Procs : RecordWrite(p)
    \/ \E p \in Procs : UpdateIdempotencyRecord(p)
    \/ \E p \in Procs : Crash(p)
    \/ \E k \in Keys : TTLExpire(k)
    \/ Tick

Spec == Init /\ [][Next]_vars

\* strings a caller of the idempotency service may pass as userID, endpoint
\* and requestBody: with and without the separator ':'
KeyUsers == {<<"a">>, <<"a", ":", "b">>}
KeyEndpoints == {<<"b">>, <<"b", ":", "c">>, <<"c">>}
KeyBodies == {<<"c">>, <<"c", ":", "d">>, <<"d">>}
KeyTriples ==
    [userID : KeyUsers, endpoint : KeyEndpoints, requestBody : KeyBodies]

\* two callers are about to ask for the key of their request
KeyInit ==
    /\ Boot
    /\ workload = Invalid
    /\ \E a, b \in KeyTriples :
          probe = [in |-> <<a, b>>, key |-> <<NoKey, NoKey>>]

\* GenerateIdempotencyKey is called with the i-th triple
KeyCall(i) ==
    /\ probe.key[i] = NoKey
    /\ probe' = [probe EXCEPT !.key[i] =
                    GenerateIdempotencyKey(probe.in[i].userID,
                                           probe.in[i].endpoint,
                                           probe.in[i].requestBody)]
    /\ UNCHANGED <<now, stores, nanos, pc, inputs, locals, outs, slotHist,
                   started, arrivals, runs, returned, kmsTotal, faults,
                   refusals, crashes, overlap, recorded, spend0, idem0,
                   workload>>

KeyNext == \E i \in {1, 2} : KeyCall(i)

KeySpec == KeyInit /\ [][KeyNext]_vars

\* the steps of the invocation in slot p: the store calls, the KMS calls and
\* the handler of ProcessIdempotentRequest
Step(p) ==
    \/ CheckIdempotency(p)
    \/ DeleteIdempotencyRecord(p)
    \/ StoreIdempotencyRecord(p)
    \/ AdmissionCheck(p)
    \/ Encrypt(p)
    \/ RecordRead(p)
    \/ RecordWrite(p)
    \/ UpdateIdempotencyRecord(p)

\* the behaviours checked for termination: those of Spec, the repeated
\* request starting from a day's spend near the limit or from the completed
\* record of an earlier invocation, the other workloads from an empty spend
\* table or from a day's spend with room for one request
LiveInit ==
    /\ Init
    /\ workload = Repeats
          => \/ spend[User1][Today(StartTime)] = NearLimit
             \/ idem[KeyOfA].Status = "completed"
    /\ workload # Repeats
          => spend[User1][Today(StartTime)] \in {NoSpend, AtLimit}

\* every call an invocation makes returns: a step that can be taken is taken
LiveSpec ==
    LiveInit /\ [][Next]_vars /\ \A p \in Procs : WF_vars(Step(p))

TypeOK ==
    /\ now \in StartTime..MaxTime
    /\ started \in 0..MaxInvocations
    /\ \A p \in Procs : pc[p] \in {"idle", "check", "delete", "insert", "admit",
           "encrypt", "recordGet", "recordPut", "update", "done", "crashed"}

\* ------------------------------------------------------------------ claims
\* the invocation in slot p has reached ProcessIdempotentRequest
Arrived(p) == pc[p] \notin {"idle"} /\ userID[p] \in UserIDs /\ ParseOK(body[p])
                /\ ParseBody(body[p]).Content # <<>>
\* no record created in this behaviour has reached its expires_at
InFirstWindow == now <= StartTime + IdempotencyHours

\* C1: at-most-once under concurrency.  When the table held no record for the
\* key at the start, no store call fails, no invocation dies and no record
\* has expired, then in every interleaving of the invocations for the key:
\* the handler has run at most once; it has run exactly once as soon as none
\* of the invocations that arrived is still in flight; and every invocation
\* that has returned without running the handler has returned the stored
\* response or one of the errors "already being processed" / "key already
\* exists" (the conditional insert was lost).
C1_AtMostOnce ==
    (~anyFault /\ ~anyCrash /\ InFirstWindow) =>
        /\ \A k \in Keys : ~idem0[k].Present =>
              /\ runs[k] <= 1
              /\ (/\ arrivals[k] >= 1
                  /\ \A p \in Procs : ~(InFlight(p) /\ key(p) = k))
                     => runs[k] = 1
        /\ \A p \in Procs :
              (/\ pc[p] = "done"
               /\ Arrived(p)
               /\ ~idem0[key(p)].Present
               /\ ~executed[p])
              => \/ /\ ret[p].kind = "cached"
                    /\ idem[key(p)].Status = "completed"
                    /\ ret[p].cached = UnmarshalAny(idem[key(p)].Response)
                 \/ /\ ret[p].kind = "error"
                    /\ ret[p].err \in {AlreadyProcessing, KeyExists}

\* two invocations for one key have overlapped and both have returned: one
\* has run the handler, the other has not
C1_Witness ==
    /\ ~anyFault /\ ~anyCrash /\ InFirstWindow /\ overlap
    /\ pc[1] = "done" /\ pc[2] = "done"
    /\ Arrived(1) /\ Arrived(2)
    /\ key(1) = key(2)
    /\ ~idem0[key(1)].Present
    /\ arrivals[key(1)] = 2
    /\ runs[key(1)] = 1
    /\ \E p \in Procs : ~executed[p] /\ ret[p].kind = "error"

\* C2: lazy expiry preserves mutual exclusion.  Of the invocations for one key
\* whose lookups have read the same expired record, at most one runs the
\* handler.
C2_ExpiryMutex ==
    \A p, q \in Procs :
        (/\ p # q
         /\ Arrived(p) /\ Arrived(q)
         /\ key(p) = key(q)
         /\ expiredSeen[p].ExpiresAt # ZeroTime
         /\ expiredSeen[p] = expiredSeen[q]
         /\ ~anyFault /\ ~anyCrash)
        => ~(executed[p] /\ executed[q])

\* C3: cached replay.  A lookup that succeeds and finds a record that has not
\* expired, whose request hash matches and whose status is completed ends
\* ProcessIdempotentRequest in that step with the stored response; the handler
\* is not run and the idempotency table is not written.
C3_CachedReplay ==
    [][\A p \in Procs :
         (/\ pc[p] = "check"
          /\ pc'[p] # "check"
          /\ faults' = faults
          /\ idem[key(p)].Present
          /\ ~(now > idem[key(p)].ExpiresAt)
          /\ idem[key(p)].RequestHash = GenerateRequestHash(body[p])
          /\ idem[key(p)].Status = "completed")
         => /\ pc'[p] = "done"
            /\ ret'[p].kind = "cached"
            /\ ret'[p].err = ""
            /\ ret'[p].cached = UnmarshalAny(idem[key(p)].Response)
            /\ out'[p].StatusCode = 201
            /\ ~executed'[p]
            /\ runs' = runs
            /\ idem' = idem]_vars

\* an invocation has been answered from a completed record
C3_Witness ==
    \E p \in Procs :
        /\ pc[p] = "done"
        /\ Arrived(p)
        /\ ret[p].kind = "cached"
        /\ ~executed[p]
        /\ idem[key(p)].Status = "completed"
        /\ ret[p].cached = UnmarshalAny(idem[key(p)].Response)
        /\ ret[p].cached.encrypted

\* the key of user u's journal-entry request r
KeyOf(u, r) == GenerateIdempotencyKey(u, Endpoint, RawBody(r))

\* C4: end-to-end replay.  User u, under budget, submits request r any number
\* of times, one submission after the other, inside the expiry window and
\* with every store and KMS call succeeding.  Once the first submission has
\* returned: the handler has run once; the ledger record of that day has
\* LLMRequests grown by exactly 1 and LLMCost by exactly the estimate and no
\* other ledger record has changed; KMS has been called for the fields of the
\* first submission only; and every submission has returned the entry of the
\* first one (same id, same field values, encrypted = true) with status 201.
C4_Replay ==
    \A u \in UserIDs : \A r \in Requests :
        LET k == KeyOf(u, r)
            e == returned[k]
            d == Today(e.CreatedAt)
            est == EstimateLLMCost(Len(r.Content), OutputTokens, Sonnet)
            cost0 == IF spend0[u][d].Present THEN spend0[u][d].LLMCost ELSE 0
            count0 == IF spend0[u][d].Present THEN spend0[u][d].LLMRequests
                      ELSE 0
            limit0 == IF spend0[u][d].Present THEN spend0[u][d].DailyLimit
                      ELSE DefaultDailyLimit
        IN (/\ ~overlap /\ ~anyFault /\ ~anyCrash /\ refusals = 0
            /\ InFirstWindow
            /\ ~idem0[k].Present
            /\ \A k2 \in Keys \ {k} : arrivals[k2] = 0
            /\ e # NoEntry
            /\ cost0 + est <= limit0)
           => /\ runs[k] = 1
              /\ spend[u][d].Present
              /\ spend[u][d].LLMRequests = count0 + 1
              /\ spend[u][d].LLMCost = cost0 + est
              /\ \A u2 \in UserIDs : \A d2 \in Days :
                    (u2 # u \/ d2 # d) => spend[u2][d2] = spend0[u2][d2]
              /\ kmsTotal = KmsNeeded(<<r.Content, r.Mood>> \o r.Tags)
              /\ e.Encrypted
              /\ e.UserID = u
              /\ \A p \in Procs :
                    (pc[p] = "done" /\ Arrived(p)) =>
                       /\ \/ ret[p].kind = "fresh" /\ ret[p].entry = e
                          \/ /\ ret[p].kind = "cached"
                             /\ ret[p].cached.id = e.ID
                             /\ ret[p].cached.user_id = e.UserID
                             /\ ret[p].cached.content = e.Content
                             /\ ret[p].cached.mood = e.Mood
                             /\ ret[p].cached.tags = e.Tags
                             /\ ret[p].cached.created_at = e.CreatedAt
                             /\ ret[p].cached.updated_at = e.UpdatedAt
                             /\ ret[p].cached.encrypted = TRUE
                       /\ out[p].StatusCode = 201
                       /\ UnmarshalAny(out[p].Body) =
                              UnmarshalAny(MarshalEntry(e))

\* the second of two sequential submissions of ReqA by user 1 has been
\* answered from the record of the first
C4_Witness ==
    /\ ~overlap /\ ~anyFault /\ ~anyCrash /\ refusals = 0
    /\ InFirstWindow
    /\ ~idem0[KeyOfA].Present
    /\ \A k2 \in Keys \ {KeyOfA} : arrivals[k2] = 0
    /\ arrivals[KeyOfA] = 2
    /\ runs[KeyOfA] = 1
    /\ returned[KeyOfA].Encrypted
    /\ spend[User1][Today(returned[KeyOfA].CreatedAt)].LLMRequests = 1
    /\ pc[1] = "done"
    /\ ret[1].kind = "cached"
    /\ ret[1].cached.id = returned[KeyOfA].ID

\* C5: in-flight duplicate.  A lookup that succeeds and finds a record that
\* has not expired, whose request hash matches and whose status is pending
\* ends ProcessIdempotentRequest in that very step (no wait, no poll) with the
\* error "request is already being processed"; the handler is not run and
\* the idempotency table is not written.
C5_InFlightDuplicate ==
    [][\A p \in Procs :
         (/\ pc[p] = "check"
          /\ pc'[p] # "check"
          /\ faults' = faults
          /\ idem[key(p)].Present
          /\ ~(now > idem[key(p)].ExpiresAt)
          /\ idem[key(p)].RequestHash = GenerateRequestHash(body[p])
          /\ idem[key(p)].Status = "pending")
         => /\ pc'[p] = "done"
            /\ ret'[p].kind = "error"
            /\ ret'[p].err = "request is already being processed"
            /\ out'[p].StatusCode = 500
            /\ ~executed'[p]
            /\ runs' = runs
            /\ idem' = idem]_vars

\* a duplicate has been refused while the first invocation is in flight
C5_Witness ==
    \E p, q \in Procs :
        /\ p # q
        /\ pc[p] = "done"
        /\ Arrived(p)
        /\ ret[p].err = "request is already being processed"
        /\ ~executed[p]
        /\ InFlight(q)
        /\ key(q) = key(p)
        /\ idem[key(p)].Status = "pending"
        /\ idem[key(p)].ExpiresAt = inserted[q]

\* C6: key-conflict detection.  Of two requests of one user to the endpoint
\* that carry the same idempotency_key and different bodies, submitted one
\* after the other inside the expiry window with every call succeeding, the
\* handler runs for one only.
C6_KeyConflict ==
    \A u \in UserIDs : \A r1, r2 \in Requests :
        (/\ r1 # r2
         /\ r1.IdempotencyKey = r2.IdempotencyKey
         /\ ~overlap /\ ~anyFault /\ ~anyCrash /\ refusals = 0
         /\ InFirstWindow
         /\ ~idem0[KeyOf(u, r1)].Present /\ ~idem0[KeyOf(u, r2)].Present)
        => ~(runs[KeyOf(u, r1)] >= 1 /\ runs[KeyOf(u, r2)] >= 1)

\* C7: expiry.  A lookup that succeeds and finds a record whose expires_at
\* lies in the past returns nothing of it, whatever its status: the record is
\* deleted and the request goes on to the insert.  An identical request that
\* arrives after expiry, runs alone and whose store calls succeed returns only
\* after it has run the handler, and leaves a record of its own for the key:
\* created now, not expired, with its user and hash, completed or failed.
C7_Expiry ==
    [][\A p \in Procs :
         /\ (/\ pc[p] = "check"
             /\ pc'[p] # "check"
             /\ faults' = faults
             /\ idem[key(p)].Present
             /\ now > idem[key(p)].ExpiresAt)
            => /\ pc'[p] = "delete"
               /\ ret'[p] = NoRet
               /\ ~executed'[p]
               /\ expiredSeen'[p].Status = idem[key(p)].Status
         /\ (/\ InFlight(p)
             /\ pc'[p] = "done"
             /\ expiredSeen[p] # NoExpired
             /\ ~fault'[p]
             /\ ~overlap)
            => /\ pc[p] = "update"
               /\ executed[p]
               /\ runs[key(p)] >= 1
               /\ idem'[key(p)].Present
               /\ idem'[key(p)].UserID = userID[p]
               /\ idem'[key(p)].RequestHash = GenerateRequestHash(body[p])
               /\ idem'[key(p)].CreatedAt = now
               /\ idem'[key(p)].ExpiresAt = now + IdempotencyHours
               /\ idem'[key(p)].ExpiresAt > expiredSeen[p].ExpiresAt
               /\ idem'[key(p)].Status =
                     (IF ret'[p].err = "" THEN "completed" ELSE "failed")
      ]_vars

\* a request has found an expired pending record, has run the handler and has
\* left its own completed record
C7_Witness ==
    \E p \in Procs :
        /\ pc[p] = "done"
        /\ Arrived(p)
        /\ expiredSeen[p].Status = "pending"
        /\ ~fault[p] /\ ~overlap
        /\ executed[p]
        /\ ret[p].kind = "fresh"
        /\ idem[key(p)].Status = "completed"
        /\ idem[key(p)].CreatedAt = now
        /\ idem[key(p)].ExpiresAt > expiredSeen[p].ExpiresAt

\* C8, as claimed: failure propagation.  Whenever the handler has returned an
\* error, ProcessIdempotentRequest returns that error unchanged and the
\* record of the key ends with status failed.
C8_FailurePropagation ==
    [][\A p \in Procs :
         (pc[p] = "update" /\ herr[p] # "" /\ pc'[p] = "done")
         => /\ ret'[p].kind = "error"
            /\ ret'[p].err = herr[p]
            /\ idem'[key(p)].Status = "failed"]_vars

\* C8, amended: whenever the handler has returned an error,
\* ProcessIdempotentRequest returns that error unchanged; the record of the
\* key ends with status failed and the marker "error: <err>" when the store
\* applies the update, and is left as it was when the update fails (its
\* error is discarded).
C8_FailurePropagationAmended ==
    [][\A p \in Procs :
         (pc[p] = "update" /\ herr[p] # "" /\ pc'[p] = "done")
         => /\ ret'[p].kind = "error"
            /\ ret'[p].err = herr[p]
            /\ ret'[p].entry = NoEntry
            /\ IF faults' = faults
               THEN /\ idem'[key(p)].Present
                    /\ idem'[key(p)].Status = "failed"
                    /\ idem'[key(p)].Response =
                          [form |-> "error", val |-> <<herr[p]>>]
               ELSE idem' = idem]_vars

\* KMS has refused the content, the invocation has returned that error and
\* its record is failed
C8_Witness ==
    \E p \in Procs :
        /\ pc[p] = "done"
        /\ Arrived(p)
        /\ executed[p]
        /\ ret[p].err = "failed to encrypt content"
        /\ out[p].StatusCode = 500
        /\ idem[key(p)].Status = "failed"
        /\ idem[key(p)].ExpiresAt = inserted[p]

\* C9: retry after failure.  A later identical request that arrives, alone,
\* while a failed record of the key has not expired, and whose store calls
\* succeed, passes the insert and runs the handler.
C9_RetryAfterFailure ==
    [][\A p \in Procs :
         (/\ pc[p] = "insert"
          /\ pc'[p] # "insert"
          /\ faults' = faults
          /\ ~overlap
          /\ expiredSeen[p] = NoExpired
          /\ idem[key(p)].Present
          /\ idem[key(p)].Status = "failed"
          /\ idem[key(p)].RequestHash = GenerateRequestHash(body[p])
          /\ ~(now > idem[key(p)].ExpiresAt))
         => pc'[p] = "admit"]_vars

\* C10: crash safety.  While the pending record of an invocation that died
\* after its insert has not reached its expires_at, no other invocation for
\* the key starts the handler.
C10_CrashSafety ==
    [][\A p, q \in Procs :
         (/\ p # q
          /\ pc[p] = "crashed"
          /\ inserted[p] # ZeroTime
          /\ ~(now > inserted[p])
          /\ faults' = 0
          /\ Arrived(q)
          /\ key(q) = key(p))
         => ~(~executed[q] /\ executed'[q])]_vars

\* C11: record lifecycle.  An item of the idempotency table appears with
\* status pending, and once its status is completed or failed it does not
\* change again for as long as it is in the table: no second update, by its
\* own execution or by another, and no completed response is overwritten.
C11_Lifecycle ==
    [][\A k \in Keys :
         /\ (~idem[k].Present /\ idem'[k].Present)
            => idem'[k].Status = "pending"
         /\ (/\ idem[k].Present
             /\ idem[k].Status \in {"completed", "failed"}
             /\ idem'[k].Present)
            => idem'[k] = idem[k]]_vars

\* C12, as claimed: in every state of a behaviour that starts with an empty
\* idempotency table, an item has a non-empty response only if its status is
\* completed.
C12_ResponseOnlyCompleted ==
    (\A k \in Keys : ~idem0[k].Present) =>
        \A k \in Keys :
            (idem[k].Present /\ idem[k].Response.form # "empty")
            => idem[k].Status = "completed"

\* C12, amended: an item has a non-empty response only if its status is
\* completed or failed; a completed item carries the serialised result, a
\* failed item the marker "error: <err>", a pending item no response.
C12_ResponseByStatus ==
    \A k \in Keys : idem[k].Present =>
        /\ idem[k].Status \in {"pending", "completed", "failed"}
        /\ idem[k].Status = "pending" <=> idem[k].Response.form = "empty"
        /\ idem[k].Status = "completed" <=> idem[k].Response.form = "json"
        /\ idem[k].Status = "failed" <=> idem[k].Response.form = "error"

\* an execution whose handler failed has left a failed item with the marker
C12_Witness ==
    \E p \in Procs :
        /\ pc[p] = "done"
        /\ Arrived(p)
        /\ executed[p]
        /\ ~idem0[key(p)].Present
        /\ ret[p].kind = "error"
        /\ idem[key(p)].Status = "failed"
        /\ idem[key(p)].Response = [form |-> "error", val |-> <<ret[p].err>>]

\* C13: admission correctness.  A CheckUserSpendLimit call that reads the
\* store answers allowed exactly when currentCost + estimatedCost <=
\* dailyLimit and reports, allowed or not, currentCost, dailyLimit and
\* remaining = dailyLimit - currentCost, where currentCost and dailyLimit are
\* those of the day's record, or 0 and the default limit when there is none.
C13_Admission ==
    [][\A p \in Procs :
         (/\ pc[p] = "admit"
          /\ pc'[p] \in {"encrypt", "update"}
          /\ faults' = faults)
         => LET rec == spend[userID[p]][Today(now)]
                cur == IF rec.Present THEN rec.LLMCost ELSE 0
                lim == IF rec.Present THEN rec.DailyLimit
                       ELSE DefaultDailyLimit
                est == estimate'[p]
            IN /\ est = Len(ParseBody(body[p]).Content) * 300
                         + OutputTokens * 1500
               /\ costCheck'[p].Allowed <=> (cur + est <= lim)
               /\ costCheck'[p].CurrentCost = cur
               /\ costCheck'[p].DailyLimit = lim
               /\ costCheck'[p].Remaining = lim - cur
               /\ costCheck'[p].Allowed <=> (pc'[p] = "encrypt")
               /\ ~rec.Present => (cur = 0 /\ lim = 500000000)]_vars

\* a request whose estimate exactly fills the limit has been admitted
C13_Witness ==
    \E p \in Procs :
        /\ pc[p] = "encrypt"
        /\ costCheck[p].Allowed
        /\ costCheck[p].CurrentCost > 0
        /\ costCheck[p].CurrentCost + estimate[p] = costCheck[p].DailyLimit
        /\ costCheck[p].Remaining = estimate[p]

\* C14: CheckUserSpendLimit is a pure admission check.  A call leaves the
\* spend table as it was, whether it allows, denies or fails, and also when
\* the day has no record (the default record is not saved).
C14_CheckIsPure ==
    [][\A p \in Procs :
         (pc[p] = "admit" /\ pc'[p] \in {"encrypt", "update"})
         => spend' = spend]_vars

\* a call has been answered from the default record and the day still has
\* no record
C14_Witness ==
    \E p \in Procs :
        /\ pc[p] = "encrypt"
        /\ costCheck[p] = [Allowed |-> TRUE, Remaining |-> DefaultDailyLimit,
                           CurrentCost |-> 0, DailyLimit |-> DefaultDailyLimit]
        /\ ~spend[userID[p]][Today(now)].Present

\* C15: monotonic spend.  For every user and day the stored LLMCost never
\* decreases from one state to the next, in any interleaving of the
\* RecordLLMRequest calls.
C15_MonotonicSpend ==
    [][\A u \in UserIDs : \A d \in Days :
         spend'[u][d].LLMCost >= spend[u][d].LLMCost]_vars

\* C16: sequential recording is exact.  A RecordLLMRequest call whose put
\* succeeds writes the record it has read with LLMRequests + 1 and LLMCost +
\* cost, whatever the limit, and changes no other record; when the call
\* overlaps no other invocation the record it has read is the stored one, or
\* the default record (0 requests, cost 0, default limit) when the day has
\* none, so each of n such calls adds exactly 1 and exactly its cost.
C16_SequentialRecording ==
    [][\A p \in Procs :
         (pc[p] = "recordPut" /\ pc'[p] = "update" /\ faults' = faults)
         => LET u == userID[p]
                d == srec[p].Date
                cur == spend[u][d]
            IN /\ spend'[u][d].Present
               /\ spend'[u][d].LLMRequests = srec[p].Rec.LLMRequests + 1
               /\ spend'[u][d].LLMCost = srec[p].Rec.LLMCost + estimate[p]
               /\ spend'[u][d].DailyLimit = srec[p].Rec.DailyLimit
               /\ \A u2 \in UserIDs : \A d2 \in Days :
                     (u2 # u \/ d2 # d) => spend'[u2][d2] = spend[u2][d2]
               /\ ~overlap =>
                     /\ d = Today(now)
                     /\ spend'[u][d].LLMRequests =
                           (IF cur.Present THEN cur.LLMRequests ELSE 0) + 1
                     /\ spend'[u][d].LLMCost =
                           (IF cur.Present THEN cur.LLMCost ELSE 0)
                              + estimate[p]
                     /\ spend'[u][d].DailyLimit =
                           (IF cur.Present THEN cur.DailyLimit
                            ELSE DefaultDailyLimit)]_vars

\* two calls of user 1, one after the other, on a day that had no record:
\* 2 requests and the sum of the two estimates
C16_Witness ==
    /\ ~overlap /\ ~anyFault /\ ~anyCrash
    /\ ~spend0[User1][Today(StartTime)].Present
    /\ spend[User1][Today(StartTime)] =
          [Present |-> TRUE, LLMRequests |-> 2,
           LLMCost |-> EstimateLLMCost(Len(ReqA.Content), OutputTokens, Sonnet)
                      + EstimateLLMCost(Len(ReqB.Content), OutputTokens, Sonnet),
           DailyLimit |-> DefaultDailyLimit]

\* the sum of f over the finite set S
RECURSIVE Sum(_, _)
Sum(f, S) ==
    IF S = {} THEN 0
    ELSE LET x == CHOOSE x \in S : TRUE IN f[x] + Sum(f, S \ {x})

\* what the ledger tbl holds for user u, over all days
LedgerRequests(tbl, u) == Sum([d \in Days |-> tbl[u][d].LLMRequests], Days)
LedgerCost(tbl, u) == Sum([d \in Days |-> tbl[u][d].LLMCost], Days)

\* C17: lost updates never inflate the ledger.  Under any interleaving of
\* RecordLLMRequest calls, what the ledger holds for a user is at most what
\* the same calls give one after the other: the initial count plus one per
\* call whose put succeeded, and the initial cost plus the sum of their
\* costs.  (It can be smaller: the witness.)
C17_NeverLargerThanSequential ==
    \A u \in UserIDs :
        /\ LedgerRequests(spend, u) <= LedgerRequests(spend0, u) + recorded[u].n
        /\ LedgerCost(spend, u) <= LedgerCost(spend0, u) + recorded[u].cost

\* a lost update: two calls of user 1 have put their record, no call has
\* failed, and the ledger holds one request and one cost only
C17_Witness ==
    /\ ~anyFault /\ ~anyCrash
    /\ recorded[User1].n = 2
    /\ LedgerRequests(spend, User1) = LedgerRequests(spend0, User1) + 1
    /\ LedgerCost(spend, User1) < LedgerCost(spend0, User1) + recorded[User1].cost
    /\ \A p \in Procs : pc[p] = "done" /\ out[p].StatusCode = 201

\* C18: graceful degradation.  When CheckUserSpendLimit answers and denies,
\* the handler makes no KMS call and no RecordLLMRequest call (the spend
\* table is left as it is) and returns, without an error, an entry with
\* Encrypted = false whose content, mood and tags are the request's
\* plaintext; ProcessIdempotentRequest then returns that entry and the Lambda
\* answers 201 with it.
C18_GracefulDegradation ==
    [][\A p \in Procs :
         /\ (/\ pc[p] = "admit" /\ pc'[p] \notin {"admit", "crashed"}
             /\ faults' = faults
             /\ ~costCheck'[p].Allowed)
            => /\ costCheck'[p].Remaining =
                     costCheck'[p].DailyLimit - costCheck'[p].CurrentCost
               /\ pc'[p] = "update"
               /\ herr'[p] = ""
               /\ entry'[p].Encrypted = FALSE
               /\ entry'[p].Content = ParseBody(body[p]).Content
               /\ entry'[p].Mood = ParseBody(body[p]).Mood
               /\ entry'[p].Tags = ParseBody(body[p]).Tags
               /\ kmsTotal' = kmsTotal
               /\ spend' = spend /\ recorded' = recorded
         /\ (/\ pc[p] = "update" /\ pc'[p] = "done"
             /\ herr[p] = "" /\ ~entry[p].Encrypted)
            => /\ ret'[p].kind = "fresh" /\ ret'[p].err = ""
               /\ ret'[p].entry = entry[p]
               /\ out'[p].StatusCode = 201
               /\ out'[p].Body = MarshalEntry(entry[p])
               /\ kmsTotal' = kmsTotal
               /\ spend' = spend /\ recorded' = recorded]_vars

\* user 1, whose day's cost is short of the limit by less than the estimate,
\* has been answered 201 with a plaintext entry; KMS was never called and the
\* spend table is the initial one
C18_Witness ==
    \E p \in Procs :
        /\ pc[p] = "done" /\ userID[p] = User1
        /\ spend0[User1][Today(StartTime)] = NearLimit
        /\ ret[p].kind = "fresh"
        /\ ~ret[p].entry.Encrypted
        /\ ret[p].entry.Content = ParseBody(body[p]).Content
        /\ ret[p].entry.Content # <<>>
        /\ out[p].StatusCode = 201
        /\ kmsTotal = 0 /\ spend = spend0
        /\ recorded[User1].n = 0

\* the JSON text txt holds, as its content, its mood or one of its tags, a
\* non-empty plaintext field of request r
HoldsPlaintext(txt, r) ==
    \/ r.Content # <<>> /\ JSONField(txt, "content") = r.Content
    \/ r.Mood # <<>> /\ JSONField(txt, "mood") = r.Mood
    \/ \E i \in 1..Len(r.Tags) : \E j \in 1..Len(JSONField(txt, "tags")) :
          r.Tags[i] # <<>> /\ JSONField(txt, "tags")[j] = r.Tags[i]

\* C19: no plaintext PHI at rest.  In every reachable state no item of the
\* idempotency table has a response that holds the plaintext content, mood
\* or tags of a journal entry a client has sent, on the encrypted path and on
\* the degraded path alike.
C19_NoPlaintextAtRest ==
    \A k \in Keys :
        (idem[k].Present /\ idem[k].Response.form = "json")
        => \A p \in Procs :
              (pc[p] # "idle" /\ ParseOK(body[p]))
              => ~HoldsPlaintext(idem[k].Response, ParseBody(body[p]))

\* C20: encryption round trip.  When the service calls succeed, DecryptPHI
\* gives back every string EncryptPHI was given: the content, the mood and
\* each tag of the request; an empty string is encrypted to the empty string
\* and decrypted to the empty string, and the service is called once per
\* non-empty string only.
C20_RoundTrip ==
    [][\A p \in Procs :
         (pc[p] = "encrypt" /\ pc'[p] = "recordGet")
         => LET r == ParseBody(body[p])
                e == enc'[p]
            IN /\ DecryptPHI(e.Content) = r.Content
               /\ DecryptPHI(e.Mood) = r.Mood
               /\ Len(e.Tags) = Len(r.Tags)
               /\ \A i \in 1..Len(r.Tags) :
                     /\ DecryptPHI(e.Tags[i]) = r.Tags[i]
                     /\ r.Tags[i] = <<>> <=> e.Tags[i] = <<>>
               /\ r.Content = <<>> <=> e.Content = <<>>
               /\ r.Mood = <<>> <=> e.Mood = <<>>
               /\ kmsTotal' - kmsTotal =
                     Cardinality({i \in 1..Len(r.Tags) : r.Tags[i] # <<>>})
                       + (IF r.Content = <<>> THEN 0 ELSE 1)
                       + (IF r.Mood = <<>> THEN 0 ELSE 1)
               /\ KmsNeeded(<<e.Content, e.Mood>> \o e.Tags) =
                     kmsTotal' - kmsTotal]_vars

\* a request with a non-empty content, a non-empty tag and an empty tag has
\* been encrypted: four calls to the service, and the ciphertexts decrypt to
\* the request's strings
C20_Witness ==
    \E p \in Procs :
        /\ pc[p] = "recordGet"
        /\ ParseBody(body[p]).Content # <<>>
        /\ Len(ParseBody(body[p]).Tags) = 3
        /\ ParseBody(body[p]).Tags[1] # <<>>
        /\ ParseBody(body[p]).Tags[2] = <<>>
        /\ enc[p].Content # <<>> /\ enc[p].Content # ParseBody(body[p]).Content
        /\ DecryptPHI(enc[p].Content) = ParseBody(body[p]).Content
        /\ DecryptPHI(enc[p].Tags[1]) = ParseBody(body[p]).Tags[1]
        /\ enc[p].Tags[2] = <<>> /\ DecryptPHI(enc[p].Tags[2]) = <<>>
        /\ enc[p].Tags[3] # <<>>
        /\ kmsTotal = 4

\* C21: array atomicity.  When the service refuses element i of the tags,
\* EncryptPHIArray hands back no array at all, although the elements before
\* i have been encrypted, and makes no call for an element after i: the
\* calls of the step are those for the content, the mood and the non-empty
\* tags up to i.  DecryptPHIArray does the same with every array of
\* ciphertexts the handler has produced, whichever element is refused.
C21_ArrayAtomicity ==
    [][\A p \in Procs :
         LET r == ParseBody(body[p])
             nonEmpty(a, n) == Cardinality({j \in 1..n : a[j] # <<>>})
         IN /\ (/\ pc[p] = "encrypt" /\ pc'[p] = "update"
                /\ herr'[p] = "failed to encrypt tags")
               => /\ enc'[p].Tags = <<>>
                  /\ enc'[p].Content # <<>>
                  /\ entry'[p] = entry[p]
                  /\ \E i \in 1..Len(r.Tags) :
                        /\ r.Tags[i] # <<>>
                        /\ kmsTotal' - kmsTotal =
                              1 + (IF r.Mood = <<>> THEN 0 ELSE 1)
                                + nonEmpty(r.Tags, i)
            /\ (pc[p] = "encrypt" /\ pc'[p] = "recordGet")
               => /\ DecryptPHIArrayAt(enc'[p].Tags, 0).arr = r.Tags
                  /\ DecryptPHIArrayAt(enc'[p].Tags, 0).err = ""
                  /\ \A i \in 1..Len(enc'[p].Tags) :
                        enc'[p].Tags[i] # <<>>
                        => /\ DecryptPHIArrayAt(enc'[p].Tags, i).arr = <<>>
                           /\ DecryptPHIArrayAt(enc'[p].Tags, i).err # ""
                           /\ DecryptPHIArrayAt(enc'[p].Tags, i).calls =
                                 nonEmpty(enc'[p].Tags, i)]_vars

\* the service has refused the third tag of the only request so far, after
\* the content, the mood and the first tag were encrypted (four calls): the
\* handler holds no tag array
C21_Witness ==
    \E p \in Procs :
        /\ started = 1 /\ pc[p] = "update"
        /\ herr[p] = "failed to encrypt tags"
        /\ Len(ParseBody(body[p]).Tags) = 3
        /\ ParseBody(body[p]).Tags[1] # <<>>
        /\ kmsTotal = 4 /\ refusals = 1
        /\ enc[p].Content # <<>> /\ enc[p].Mood # <<>>
        /\ enc[p].Tags = <<>>

\* C22: entity-level encryption is all-or-nothing.  When the encryption of
\* the content, the mood or a tag fails, the handler returns its error and
\* no entry and records no cost; ProcessIdempotentRequest returns the error,
\* the Lambda answers 500, and the record of the key ends failed.  An entry
\* the handler builds has either all of content, mood and tags encrypted or
\* (the degraded path) all of them in plaintext.
C22_AllOrNothing ==
    [][\A p \in Procs :
         (/\ pc[p] = "update" /\ pc'[p] = "done"
          /\ herr[p] \in {"failed to encrypt content", "failed to encrypt mood",
                          "failed to encrypt tags"})
         => /\ ret'[p].kind = "error" /\ ret'[p].entry = NoEntry
            /\ out'[p].StatusCode = 500
            /\ spend' = spend /\ recorded' = recorded
            /\ idem'[key(p)].Status = "failed"]_vars

\* C22, amended: as C22, the record of the key being set to failed, with the
\* error as its response, when the store applies the update, and left as it
\* was when the update itself fails; the handler's steps are covered too:
\* the failing encryption step leaves no entry and touches no table.
C22_AllOrNothingAmended ==
    [][\A p \in Procs :
         LET r == ParseBody(body[p])
             errs == {"failed to encrypt content", "failed to encrypt mood",
                      "failed to encrypt tags"}
         IN /\ (pc[p] = "encrypt" /\ pc'[p] = "update")
               => /\ herr'[p] \in errs
                  /\ entry'[p] = NoEntry
                  /\ spend' = spend /\ recorded' = recorded /\ idem' = idem
            /\ (pc[p] = "update" /\ pc'[p] = "done" /\ herr[p] \in errs)
               => /\ ret'[p].kind = "error" /\ ret'[p].err = herr[p]
                  /\ ret'[p].entry = NoEntry
                  /\ out'[p].StatusCode = 500
                  /\ spend' = spend /\ recorded' = recorded
                  /\ IF faults' = faults
                     THEN /\ idem'[key(p)].Status = "failed"
                          /\ idem'[key(p)].Response =
                                [form |-> "error", val |-> <<herr[p]>>]
                     ELSE idem' = idem
            /\ (entry'[p] # entry[p] /\ entry'[p] # NoEntry)
               => \/ /\ entry'[p].Encrypted
                     /\ entry'[p].Content # r.Content
                     /\ DecryptPHI(entry'[p].Content) = r.Content
                     /\ r.Mood # <<>> => entry'[p].Mood # r.Mood
                     /\ DecryptPHI(entry'[p].Mood) = r.Mood
                     /\ Len(entry'[p].Tags) = Len(r.Tags)
                     /\ \A i \in 1..Len(r.Tags) :
                           /\ r.Tags[i] # <<>>
                                 => entry'[p].Tags[i] # r.Tags[i]
                           /\ DecryptPHI(entry'[p].Tags[i]) = r.Tags[i]
                  \/ /\ ~entry'[p].Encrypted
                     /\ entry'[p].Content = r.Content
                     /\ entry'[p].Mood = r.Mood
                     /\ entry'[p].Tags = r.Tags]_vars

\* the service has refused the mood after it encrypted the content; the
\* invocation has been answered 500 with that error, its record is failed
\* and the spend table is the initial one
C22_Witness ==
    \E p \in Procs :
        /\ pc[p] = "done" /\ started = 1
        /\ ret[p].err = "failed to encrypt mood"
        /\ ret[p].entry = NoEntry
        /\ out[p].StatusCode = 500
        /\ kmsTotal = 2
        /\ idem[key(p)].Status = "failed"
        /\ idem[key(p)].ExpiresAt = inserted[p]
        /\ spend = spend0 /\ recorded[User1].n = 0

\* C23: early rejection.  An invocation whose Authorization header is
\* missing or carries no valid token is answered 401, and one whose body
\* does not parse or whose content is empty is answered 400; such an
\* invocation ends in that step: it never reaches ProcessIdempotentRequest,
\* the two tables are left as they are and KMS is not called.  Every other
\* invocation goes on to the lookup.
C23_EarlyRejection ==
    [][\A p \in Procs :
         (/\ started' = started + 1
          /\ Free(p) /\ \A q \in Procs : q < p => InFlight(q))
         => LET h == hdr'[p]
                b == body'[p]
                badAuth == h = <<>> \/ StripBearer(h) \notin UserIDs
                badBody == ~ParseOK(b) \/ ParseBody(b).Content = <<>>
                rejected ==
                    /\ pc'[p] = "done"
                    /\ idem' = idem /\ spend' = spend
                    /\ kmsTotal' = kmsTotal
                    /\ arrivals' = arrivals /\ runs' = runs
                    /\ recorded' = recorded
                    /\ ~executed'[p] /\ inserted'[p] = ZeroTime
            IN /\ badAuth => rejected /\ out'[p].StatusCode = 401
               /\ (~badAuth /\ badBody) => rejected /\ out'[p].StatusCode = 400
               /\ (~badAuth /\ ~badBody)
                     => pc'[p] = "check" /\ out'[p].StatusCode = 0]_vars

\* two invocations have been rejected, the second one, whose credential is
\* valid and whose content is empty, with 400; nothing was stored, read or
\* encrypted
C23_Witness ==
    \E p \in Procs :
        /\ started = 2 /\ pc[p] = "done"
        /\ AuthOK(hdr[p]) /\ ParseOK(body[p])
        /\ ParseBody(body[p]).Content = <<>>
        /\ out[p].StatusCode = 400
        /\ out[p].Code = "VALIDATION_ERROR"
        /\ idem = idem0 /\ spend = spend0 /\ kmsTotal = 0
        /\ \A k \in Keys : arrivals[k] = 0 /\ ~idem[k].Present

\* C24: step ordering within one request.  A call to KMS is made only by an
\* invocation whose admission check has answered allowed = true; an
\* encrypted entry is built only in the step in which content, mood and tags
\* have all been encrypted, from these ciphertexts; RecordLLMRequest reads
\* and writes the spend table only for an invocation that holds such an
\* entry; and the admission check, the encryption and the recording are
\* steps of an invocation that has inserted its pending record.
C24_StepOrdering ==
    [][\A p \in Procs :
         LET moved == pc'[p] # pc[p] /\ pc'[p] # "crashed"
         IN /\ (moved /\ pc[p] \in {"admit", "encrypt", "recordGet",
                                    "recordPut"})
               => inserted[p] # ZeroTime
            /\ (moved /\ pc[p] = "encrypt")
               => costCheck[p].Allowed /\ executed[p]
            /\ (kmsTotal' # kmsTotal)
               => \E q \in Procs :
                     /\ pc[q] = "encrypt" /\ pc'[q] # pc[q]
                     /\ costCheck[q].Allowed
            /\ (entry'[p] # entry[p] /\ entry'[p].Encrypted)
               => /\ pc[p] = "encrypt" /\ pc'[p] = "recordGet"
                  /\ herr'[p] = ""
                  /\ enc'[p].Content # <<>>
                  /\ Len(enc'[p].Tags) = Len(ParseBody(body[p]).Tags)
                  /\ entry'[p].Content = enc'[p].Content
                  /\ entry'[p].Mood = enc'[p].Mood
                  /\ entry'[p].Tags = enc'[p].Tags
            /\ (moved /\ pc[p] \in {"recordGet", "recordPut"})
               => /\ entry[p].Encrypted
                  /\ entry[p].Content = enc[p].Content
                  /\ costCheck[p].Allowed
            /\ (spend' # spend \/ recorded' # recorded)
               => \E q \in Procs :
                     /\ pc[q] = "recordPut" /\ pc'[q] = "update"
                     /\ entry[q].Encrypted]_vars

\* an invocation has been admitted, has encrypted its three fields, built
\* its entry and recorded its cost, in this order, after its insert
C24_Witness ==
    \E p \in Procs :
        /\ pc[p] = "update" /\ herr[p] = ""
        /\ inserted[p] # ZeroTime
        /\ costCheck[p].Allowed
        /\ entry[p].Encrypted /\ entry[p].Tags = enc[p].Tags
        /\ Len(enc[p].Tags) = 3
        /\ kmsTotal = 4
        /\ recorded[userID[p]].n = 1
        /\ idem[key(p)].Status = "pending"

\* C25: a store failure is terminal for the attempt.  When the GetItem of
\* the lookup fails, or the conditional insert does not create the record
\* (the call fails, or the key is present), ProcessIdempotentRequest returns
\* an error in that very step: the call is not repeated, the handler is not
\* executed and the table is left as it is.
C25_StoreFailureTerminal ==
    [][\A p \in Procs :
         LET ended(errs) ==
                 /\ pc'[p] = "done"
                 /\ ret'[p].kind = "error" /\ ret'[p].err \in errs
                 /\ out'[p].StatusCode = 500
                 /\ ~executed'[p] /\ runs' = runs
                 /\ idem' = idem /\ spend' = spend /\ kmsTotal' = kmsTotal
         IN /\ (pc[p] = "check" /\ pc'[p] # "check" /\ faults' # faults)
               => ended({"failed to check idempotency: failed to check idempotency"})
            /\ (/\ pc[p] = "insert" /\ pc'[p] # "insert"
                /\ (faults' # faults \/ idem[key(p)].Present))
               => ended({"failed to store idempotency record: failed to store idempotency record",
                         "failed to store idempotency record: idempotency key already exists"})
            /\ (pc[p] = "insert" /\ pc'[p] = "admit")
               => /\ ~idem[key(p)].Present /\ faults' = faults
                  /\ idem'[key(p)].Present /\ idem'[key(p)].Status = "pending"]_vars

\* the conditional insert of the only invocation so far has failed at the
\* store: the invocation has ended with that error, its handler was not run
\* and no record was created
C25_Witness ==
    \E p \in Procs :
        /\ started = 1 /\ pc[p] = "done" /\ faults = 1
        /\ ret[p].err =
              "failed to store idempotency record: failed to store idempotency record"
        /\ out[p].StatusCode = 500
        /\ ~executed[p] /\ runs[key(p)] = 0
        /\ ~idem[key(p)].Present
        /\ kmsTotal = 0 /\ spend = spend0

\* C26: record fields.  In every reachable state every item of the
\* idempotency table carries the user id and the request hash of the request
\* whose key it is stored under, a creation time, and an expires_at equal to
\* its created_at plus 24 hours.
C26_RecordFields ==
    \A k \in Keys :
        idem[k].Present
        => /\ \E u \in UserIDs : \E b \in Bodies :
                 /\ k = GenerateIdempotencyKey(u, Endpoint, b)
                 /\ idem[k].UserID = u
                 /\ idem[k].RequestHash = GenerateRequestHash(b)
           /\ idem[k].CreatedAt # ZeroTime
           /\ idem[k].ExpiresAt = idem[k].CreatedAt + IdempotencyHours

\* C27: termination.  Provided every store call, every KMS call and the
\* handler return, every invocation ends: it goes through the lookup, the
\* lazy delete, the conditional insert, the handler and the status update in
\* this order, each at most once and the handler closure at most once, and
\* never goes back to an earlier call; as a behaviour has finitely many
\* invocations, from some state on none is in flight.
C27_Termination ==
    /\ [][\A p \in Procs :
            LET rank == [l \in {"check", "delete", "insert", "admit",
                                "encrypt", "recordGet", "recordPut",
                                "update", "done", "crashed"} |->
                            CASE l = "check" -> 1 [] l = "delete" -> 2
                              [] l = "insert" -> 3 [] l = "admit" -> 4
                              [] l = "encrypt" -> 5 [] l = "recordGet" -> 6
                              [] l = "recordPut" -> 7 [] l = "update" -> 8
                              [] OTHER -> 9]
            IN /\ (pc[p] \notin {"idle", "done", "crashed"}
                   /\ pc'[p] # pc[p])
                  => rank[pc'[p]] > rank[pc[p]]
               /\ (executed'[p] # executed[p] /\ executed'[p])
                  => pc[p] = "admit" /\ pc'[p] \in {"encrypt", "update"}
               /\ \A k \in Keys :
                     runs'[k] # runs[k]
                     => /\ runs'[k] = runs[k] + 1
                        /\ \E q \in Procs :
                              /\ key(q) = k /\ pc[q] = "admit"
                              /\ ~executed[q] /\ executed'[q]]_vars
    /\ <>[](\A p \in Procs : pc[p] \in {"idle", "done", "crashed"})

\* an invocation whose lookup found an expired record has deleted it,
\* inserted its own, run the handler once, updated the record and returned
C27_Witness ==
    \E p \in Procs :
        /\ pc[p] = "done" /\ started = 1 /\ ~anyFault
        /\ expiredSeen[p].ExpiresAt # ZeroTime
        /\ inserted[p] # ZeroTime
        /\ executed[p] /\ runs[key(p)] = 1
        /\ ret[p].kind = "fresh"
        /\ idem[key(p)].Status = "completed"
        /\ idem[key(p)].ExpiresAt = inserted[p]

\* C28: success implies replayable.  Whenever ProcessIdempotentRequest
\* returns the handler's result to the invocation that inserted the record,
\* the item of the key has status completed and holds that result as its
\* response, whether or not the store applied the status update.
C28_SuccessReplayable ==
    [][\A p \in Procs :
         (/\ pc[p] = "update" /\ pc'[p] = "done"
          /\ inserted[p] # ZeroTime
          /\ ret'[p].kind = "fresh" /\ ret'[p].err = "")
         => /\ idem'[key(p)].Present
            /\ idem'[key(p)].Status = "completed"
            /\ idem'[key(p)].Response.form = "json"
            /\ JSONField(idem'[key(p)].Response, "id") = ret'[p].entry.ID
            /\ JSONField(idem'[key(p)].Response, "content") =
                  ret'[p].entry.Content]_vars

\* C29: budget bound.  In every reachable state the cost stored for a user
\* and a day does not exceed the daily limit of that record, whatever the
\* interleaving of the user's requests.
C29_BudgetBound ==
    \A u \in UserIDs : \A d \in Days :
        spend[u][d].Present => spend[u][d].LLMCost <= spend[u][d].DailyLimit

\* C30: key injectivity.  GenerateIdempotencyKey gives two different
\* (userID, endpoint, requestBody) triples two different keys, whatever the
\* strings, those that contain ':' included; so the requests of two
\* different users never share a key.
C30_KeyInjective ==
    (probe.key[1] # NoKey /\ probe.key[2] # NoKey /\ probe.in[1] # probe.in[2])
    => probe.key[1] # probe.key[2]

\* C31: the entity names its caller.  Every entry the handler closure has
\* returned, an encrypted one or the plaintext one of the degraded path,
\* carries as UserID the user id of the token the invocation has
\* authenticated.
C31_EntityOfCaller ==
    \A p \in Procs :
        (pc[p] = "done" /\ ret[p].kind = "fresh")
        => ret[p].entry.UserID = userID[p]

\* C32: a degraded outcome is sticky.  Once an execution of the handler for
\* a key has been denied by the admission check and has returned its
\* plaintext entry (Encrypted = false) to its caller, every identical request
\* whose lookup succeeds before the record of that execution expires is
\* answered with that entry: the handler is not run, no admission check is
\* made and the spend table is not read or written, whatever budget the user
\* has by then.
C32_DegradedSticky ==
    [][\A p \in Procs :
         (/\ pc[p] = "check"
          /\ pc'[p] # "check"
          /\ faults' = faults
          /\ returned[key(p)] # NoEntry
          /\ ~returned[key(p)].Encrypted
          /\ ~(now > returned[key(p)].CreatedAt + IdempotencyHours))
         => /\ pc'[p] = "done"
            /\ ret'[p].kind = "cached"
            /\ ret'[p].err = ""
            /\ ret'[p].cached = UnmarshalAny(MarshalEntry(returned[key(p)]))
            /\ out'[p].StatusCode = 201
            /\ ~executed'[p]
            /\ costCheck'[p] = NoCheck
            /\ runs' = runs
            /\ spend' = spend]_vars

\* C33: a completed encrypted request has its cost recorded.  For every user,
\* the invocations that ProcessIdempotentRequest has answered with the
\* handler's encrypted entry (Encrypted = true, no error) have each made a
\* RecordLLMRequest call whose put succeeded, adding one request and the
\* request's estimated cost: a RecordLLMRequest call that fails, at its read
\* or at its put, makes the request fail instead.
C33_CostRecorded ==
    \A u \in UserIDs :
        LET completed ==
              {p \in Procs : /\ pc[p] = "done" /\ userID[p] = u
                             /\ ret[p].kind = "fresh" /\ ret[p].err = ""
                             /\ ret[p].entry.Encrypted}
        IN /\ recorded[u].n >= Cardinality(completed)
           /\ recorded[u].cost >=
                 Sum([p \in Procs |->
                        EstimateLLMCost(Len(ParseBody(body[p]).Content),
                                        OutputTokens, Sonnet)], completed)

\* C34: ledger isolation.  CheckUserSpendLimit and RecordLLMRequest of user
\* U on day D read and write the item (U, D) only.  The answer of the check
\* is computed from that item (or from the default record when it is absent)
\* and the check writes nothing; RecordLLMRequest reads that item and puts
\* it back; every item of another user or of another day is left as it is, so
\* the cost of one day does not count on another day.
C34_LedgerIsolation ==
    [][/\ \A u \in UserIDs : \A d \in Days :
            spend'[u][d] # spend[u][d]
            => \E p \in Procs :
                  /\ pc[p] = "recordPut" /\ pc'[p] = "update"
                  /\ userID[p] = u /\ srec[p].Date = d /\ Today(now) = d
       /\ \A p \in Procs :
            LET item == spend[userID[p]][Today(now)]
                cost == IF item.Present THEN item.LLMCost ELSE 0
                n == IF item.Present THEN item.LLMRequests ELSE 0
                limit == IF item.Present THEN item.DailyLimit
                         ELSE DefaultDailyLimit
            IN /\ (/\ pc[p] = "admit" /\ pc'[p] \in {"encrypt", "update"}
                   /\ faults' = faults)
                  => /\ costCheck'[p].CurrentCost = cost
                     /\ costCheck'[p].DailyLimit = limit
                     /\ costCheck'[p].Remaining = limit - cost
                     /\ costCheck'[p].Allowed = ~(cost + estimate'[p] > limit)
                     /\ spend' = spend
               /\ (pc[p] = "recordGet" /\ pc'[p] = "recordPut")
                  => /\ srec'[p].Date = Today(now)
                     /\ srec'[p].Rec.LLMCost = cost
                     /\ srec'[p].Rec.LLMRequests = n
                     /\ srec'[p].Rec.DailyLimit = limit
                     /\ spend' = spend
               /\ (/\ pc[p] = "recordPut" /\ pc'[p] = "update"
                   /\ faults' = faults)
                  => /\ spend'[userID[p]][srec[p].Date].LLMCost =
                           srec[p].Rec.LLMCost + estimate[p]
                     /\ spend'[userID[p]][srec[p].Date].LLMRequests =
                           srec[p].Rec.LLMRequests + 1
                     /\ \A u \in UserIDs : \A d \in Days :
                           <<u, d>> # <<userID[p], srec[p].Date>>
                           => spend'[u][d] = spend[u][d]]_vars

\* user 1 starts the first day near the limit; user 2 has recorded a request
\* on that day and user 1 has been admitted and has recorded a request on the
\* next day: the item of user 1's first day is the initial one
C34_Witness ==
    /\ spend0[User1][Today(StartTime)] = NearLimit
    /\ spend[User1][Today(StartTime)] = NearLimit
    /\ spend[User2][Today(StartTime)].Present
    /\ spend[User2][Today(StartTime)].LLMRequests = 1
    /\ now > StartTime /\ Today(now) # Today(StartTime)
    /\ spend[User1][Today(now)].Present
    /\ spend[User1][Today(now)].LLMRequests = 1
    /\ spend[User1][Today(now)].LLMCost =
          EstimateLLMCost(Len(ReqA.Content), OutputTokens, Sonnet)
    /\ ~spend[User2][Today(now)].Present
    /\ \E p \in Procs :
          /\ pc[p] = "done" /\ userID[p] = User1
          /\ ret[p].kind = "fresh" /\ ret[p].entry.Encrypted

\* C35: the daily limit is stable.  No step changes the DailyLimit of an item
\* of the spend table that exists, and no step removes such an item:
\* RecordLLMRequest puts back the limit it has read, and an item it creates
\* has the default limit of 5.00 dollars.
C35_LimitStable ==
    [][/\ \A u \in UserIDs : \A d \in Days :
            /\ spend[u][d].Present
               => /\ spend'[u][d].Present
                  /\ spend'[u][d].DailyLimit = spend[u][d].DailyLimit
            /\ (~spend[u][d].Present /\ spend'[u][d].Present)
               => spend'[u][d].DailyLimit = DefaultDailyLimit
       /\ \A p \in Procs :
            (pc[p] = "recordPut" /\ pc'[p] = "update" /\ faults' = faults)
            => spend'[userID[p]][srec[p].Date].DailyLimit =
                  srec[p].Rec.DailyLimit]_vars

\* user 1, whose limit an operator has raised to 10.00, has been admitted
\* with a day's cost of 5.00 and the request is recorded under the raised
\* limit; the item RecordLLMRequest has created on the next day has the
\* default limit
C35_Witness ==
    /\ spend0[User1][Today(StartTime)] = RaisedLimit
    /\ spend[User1][Today(StartTime)].LLMRequests = RaisedLimit.LLMRequests + 1
    /\ spend[User1][Today(StartTime)].LLMCost > RaisedLimit.LLMCost
    /\ spend[User1][Today(StartTime)].DailyLimit = 2 * DefaultDailyLimit
    /\ Today(now) # Today(StartTime)
    /\ ~spend0[User1][Today(now)].Present
    /\ spend[User1][Today(now)].Present
    /\ spend[User1][Today(now)].LLMRequests = 1
    /\ spend[User1][Today(now)].DailyLimit = DefaultDailyLimit

\* C36: the array functions keep length and order.  When every call
\* succeeds, the array EncryptPHIArray returns for the tags has the length
\* of the tags, its element i is the base64 text of the ciphertext of tag i
\* and is empty where tag i is empty, and the service is called once per
\* non-empty tag; DecryptPHIArray applied to that array returns an array of
\* the same length whose element i is the plaintext of element i.  For an
\* empty array both return an empty array and call the service not at all.
C36_ArrayShape ==
    [][\A p \in Procs :
         (pc[p] = "encrypt" /\ pc'[p] = "recordGet")
         => LET a == ParseBody(body[p]).Tags
                e == enc'[p].Tags
                d == DecryptPHIArrayAt(e, 0)
                single ==
                    (IF ParseBody(body[p]).Content = <<>> THEN 0 ELSE 1)
                      + (IF ParseBody(body[p]).Mood = <<>> THEN 0 ELSE 1)
            IN /\ DOMAIN e = 1..Len(a)
               /\ \A i \in 1..Len(a) :
                     e[i] = IF a[i] = <<>> THEN <<>>
                            ELSE <<"=", "K">> \o a[i]
               /\ kmsTotal' - kmsTotal - single =
                     Cardinality({i \in 1..Len(a) : a[i] # <<>>})
               /\ d.err = ""
               /\ DOMAIN d.arr = 1..Len(e)
               /\ \A i \in 1..Len(e) :
                     d.arr[i] = IF e[i] = <<>> THEN <<>>
                                ELSE Tail(Tail(e[i]))
               /\ d.calls = Cardinality({i \in 1..Len(e) : e[i] # <<>>})
               /\ a = <<>> => (e = <<>> /\ d.arr = <<>> /\ d.calls = 0
                               /\ kmsTotal' - kmsTotal = single)]_vars

\* two requests have been answered with their encrypted entries: one with
\* the tags 't', '' and 's', whose ciphertexts stand in this order around the
\* empty element, and one without tags, whose array is empty; the service was
\* called four times for the first and once for the second
C36_Witness ==
    \E p, q \in Procs :
        /\ pc[p] = "done" /\ pc[q] = "done"
        /\ ret[p].kind = "fresh" /\ ret[q].kind = "fresh"
        /\ ParseBody(body[p]).Tags = <<<<"t">>, <<>>, <<"s">>>>
        /\ ret[p].entry.Encrypted
        /\ ret[p].entry.Tags = <<<<"=", "K", "t">>, <<>>, <<"=", "K", "s">>>>
        /\ ParseBody(body[q]).Tags = <<>>
        /\ ret[q].entry.Encrypted
        /\ ret[q].entry.Tags = <<>>
        /\ kmsTotal = 5

====
